---- MODULE Spec2Model ----
(***************************************************************************)
(* Model of the ADS-B decode pipeline of novatel-nav-toolkit:              *)
(*   novatel_passcom_parser.py  NovAtelPasscomParser                       *)
(*   gdl90_deframer.py          GDL90Deframer                              *)
(*   adsb_altitude_decoder.py   ADSBAltitudeDecoder                        *)
(*   adsb_parser.py             ADSBParser                                 *)
(* Bytes are the integers 0..255, byte strings are sequences of bytes.     *)
(* Python's None is modelled by an empty set where a value is optional     *)
(* (a one-element set holds the value), and by NoneMsg for a None message. *)
(***************************************************************************)
EXTENDS Integers, Sequences, FiniteSets, TLC

VARIABLES
    adsb_parser,        \* ADSBParser: counters, aircraft_data, last_valid_data
    passcom_parser,     \* ADSBParser.passcom_parser : NovAtelPasscomParser
    gdl90_deframer,     \* ADSBParser.gdl90_deframer : GDL90Deframer
    altitude_decoder,   \* ADSBParser.altitude_decoder : ADSBAltitudeDecoder
    ref_parser,         \* a second, independent NovAtelPasscomParser instance
    call                \* the last call made: its operation, arguments and return value

vars == <<adsb_parser, passcom_parser, gdl90_deframer, altitude_decoder, ref_parser, call>>

----------------------------------------------------------------------------
(* Byte-string helpers with Python's semantics (0-based, clamped slices).  *)

MinOf(S) == CHOOSE x \in S : \A y \in S : x <= y

MaxOf(S) == CHOOSE x \in S : \A y \in S : x >= y

\* s[a:b]
Slice(s, a, b) == SubSeq(s, a + 1, IF b < Len(s) THEN b ELSE Len(s))

\* s[a:]
From(s, a) == SubSeq(s, a + 1, Len(s))

\* s.find(m): the lowest 0-based index where m occurs in s, or -1
Find(s, m) ==
    LET hits == {i \in 0..(Len(s) - Len(m)) : SubSeq(s, i + 1, i + Len(m)) = m}
    IN  IF hits = {} THEN -1 ELSE MinOf(hits)

\* the message None
NoneMsg == <<-1>>

\* (first_byte >> 3) & 0x1F
DF(first_byte) == (first_byte \div 8) % 32

----------------------------------------------------------------------------
(* NovAtelPasscomParser                                                    *)

FRAME_START_MARKER == <<126, 38>>

\* the literal head of WRAPPER_PATTERN: "Received packet from "
WrapperLiteral ==
    <<82, 101, 99, 101, 105, 118, 101, 100, 32, 112, 97, 99, 107, 101, 116, 32,
      102, 114, 111, 109, 32>>

IsDigit(b) == 48 <= b /\ b <= 57

\* WRAPPER_PATTERN matched at 0-based offset st of data: the end offset of
\* the match, or -1.  [^:]+ stops at the first ':' and \d+ at the first
\* non-digit, so the match is unique.
WrapperMatchEnd(data, st) ==
    LET n == Len(data)
        p == st + Len(WrapperLiteral)
        colons == {i \in p..(n - 1) : data[i + 1] = 58}
        c == IF colons = {} THEN -1 ELSE MinOf(colons)
        nondig == {i \in (c + 1)..(n - 1) : ~IsDigit(data[i + 1])}
        e == IF nondig = {} THEN -1 ELSE MinOf(nondig)
    IN  IF Slice(data, st, p) # WrapperLiteral THEN -1
        ELSE IF c = -1 \/ c = p THEN -1
        ELSE IF e = -1 \/ e = c + 1 THEN -1
        ELSE IF e + 1 <= n - 1 /\ data[e + 1] = 58 /\ data[e + 2] = 32 THEN e + 2
        ELSE -1

\* NovAtelPasscomParser.__init__
PasscomInit ==
    [frames_processed |-> 0, frames_parsed_successfully |-> 0,
     wrapper_strip_count |-> 0, ascii_hex_conversions |-> 0,
     mode_s_frames_extracted |-> 0, parse_errors |-> 0,
     frame_buffer |-> <<>>]

\* _extract_next_frame that empties the buffer on an incomplete frame
ExtractNextFrame_DropsPartial(buf) ==
    LET marker_pos == Find(buf, FRAME_START_MARKER)
        b1 == IF marker_pos > 0 THEN From(buf, marker_pos) ELSE buf
        data_length == b1[3] * 256 + b1[4]
        total_frame_length == 4 + data_length
    IN  IF marker_pos = -1
        THEN [some |-> FALSE, data |-> <<>>,
              buf |-> IF Len(buf) > 100 THEN From(buf, Len(buf) - 100) ELSE buf]
        ELSE IF Len(b1) < 4
        THEN [some |-> FALSE, data |-> <<>>, buf |-> b1]
        ELSE IF Len(b1) < total_frame_length
        THEN [some |-> FALSE, data |-> <<>>, buf |-> <<>>]
        ELSE [some |-> TRUE, data |-> Slice(b1, 4, total_frame_length),
              buf |-> From(b1, total_frame_length)]

\* _extract_next_frame on a buffer: some = FALSE is the return value None,
\* data the returned frame body, buf the buffer left behind.
ExtractNextFrame(buf) ==
    LET marker_pos == Find(buf, FRAME_START_MARKER)
        b1 == IF marker_pos > 0 THEN From(buf, marker_pos) ELSE buf
        data_length == b1[3] * 256 + b1[4]
        total_frame_length == 4 + data_length
    IN  IF marker_pos = -1
        THEN [some |-> FALSE, data |-> <<>>,
              buf |-> IF Len(buf) > 100 THEN From(buf, Len(buf) - 100) ELSE buf]
        ELSE IF Len(b1) < 4
        THEN [some |-> FALSE, data |-> <<>>, buf |-> b1]
        ELSE IF Len(b1) < total_frame_length
        THEN [some |-> FALSE, data |-> <<>>, buf |-> b1]
        ELSE [some |-> TRUE, data |-> Slice(b1, 4, total_frame_length),
              buf |-> From(b1, total_frame_length)]

\* _strip_novatel_wrapper: the cleaned data and whether a wrapper was removed
StripNovatelWrapper(data) ==
    LET end == WrapperMatchEnd(data, 0)
    IN  IF end # -1 THEN [data |-> From(data, end), stripped |-> 1]
        ELSE [data |-> data, stripped |-> 0]

IsHexDigit(b) == (48 <= b /\ b <= 57) \/ (65 <= b /\ b <= 70) \/ (97 <= b /\ b <= 102)

HexVal(b) == IF b <= 57 THEN b - 48 ELSE IF b <= 70 THEN b - 55 ELSE b - 87

\* str.isspace() on an ASCII character
IsStrSpace(b) == b \in {9, 10, 11, 12, 13, 28, 29, 30, 31, 32}

\* the whitespace bytes.fromhex skips between byte pairs
IsFromhexSpace(b) == b \in {9, 10, 11, 12, 13, 32}

\* str.strip()
StrStrip(s) ==
    LET keep == {i \in 1..Len(s) : ~IsStrSpace(s[i])}
    IN  IF keep = {} THEN <<>> ELSE SubSeq(s, MinOf(keep), MaxOf(keep))

IsNotSpNlCr(b) == b \notin {32, 10, 13}

RECURSIVE FromHexAt(_, _, _)
\* bytes.fromhex from 1-based position i on, acc the bytes decoded so far
FromHexAt(s, i, acc) ==
    IF i > Len(s) THEN [ok |-> TRUE, bytes |-> acc]
    ELSE IF IsFromhexSpace(s[i]) THEN FromHexAt(s, i + 1, acc)
    ELSE IF i + 1 <= Len(s) /\ IsHexDigit(s[i]) /\ IsHexDigit(s[i + 1])
    THEN FromHexAt(s, i + 2, Append(acc, HexVal(s[i]) * 16 + HexVal(s[i + 1])))
    ELSE [ok |-> FALSE, bytes |-> <<>>]

\* _convert_ascii_hex_if_needed: some = FALSE is None; converted counts
\* ascii_hex_conversions
ConvertAsciiHexIfNeeded(data) ==
    LET hex0 == SelectSeq(StrStrip(data), IsNotSpNlCr)
        hex_string == IF Len(hex0) % 2 # 0 THEN SubSeq(hex0, 1, Len(hex0) - 1) ELSE hex0
        conv == FromHexAt(hex_string, 1, <<>>)
        ascii == \A i \in 1..Len(data) : data[i] < 128
    IN  IF Len(data) = 0 THEN [some |-> FALSE, data |-> <<>>, converted |-> 0]
        ELSE IF IsHexDigit(data[1]) /\ ascii /\ conv.ok
        THEN [some |-> TRUE, data |-> conv.bytes, converted |-> 1]
        ELSE [some |-> TRUE, data |-> data, converted |-> 0]

\* the frame length when the list of long formats is consulted first
ModeSFrameLength_LongFirst(df) ==
    IF df \in {16, 17, 18, 19, 20, 21, 24} THEN 28
    ELSE 14

\* the frame length _extract_mode_s_frames picks for a downlink format
ModeSFrameLength(df) ==
    IF df \in {0, 4, 5, 11, 16, 20, 21} THEN 14
    ELSE IF df \in {16, 17, 18, 19, 20, 21, 24} THEN 28
    ELSE 14

RECURSIVE ExtractModeSFramesAt(_, _, _)
\* the while loop of _extract_mode_s_frames from 0-based offset on
ExtractModeSFramesAt(binary_data, offset, frames) ==
    LET n == Len(binary_data)
        df == DF(binary_data[offset + 1])
        want == ModeSFrameLength(df)
        frame_length == IF offset + want > n /\ want = 28 /\ offset + 14 <= n
                        THEN 14 ELSE want
        frame == Slice(binary_data, offset, offset + frame_length)
        frame_df == DF(frame[1])
    IN  IF offset >= n \/ offset + 1 >= n THEN frames
        ELSE IF offset + frame_length > n THEN frames
        ELSE ExtractModeSFramesAt(binary_data, offset + frame_length,
                 IF 0 <= frame_df /\ frame_df <= 31 THEN Append(frames, frame) ELSE frames)

\* _extract_mode_s_frames
ExtractModeSFrames(binary_data) == ExtractModeSFramesAt(binary_data, 0, <<>>)

\* _process_frame_data: the Mode-S frames of one frame body and the counter
\* increments it makes
ProcessFrameData(frame_data) ==
    LET Extracted(w, h, fs) ==
            [frames |-> fs, wrapper |-> w.stripped, hex |-> h.converted,
             modes |-> Len(fs)]
        Converted(w, h) ==
            IF ~h.some \/ Len(h.data) = 0
            THEN [frames |-> <<>>, wrapper |-> w.stripped, hex |-> h.converted,
                  modes |-> 0]
            ELSE Extracted(w, h, ExtractModeSFrames(h.data))
        Stripped(w) ==
            IF Len(w.data) = 0
            THEN [frames |-> <<>>, wrapper |-> w.stripped, hex |-> 0, modes |-> 0]
            ELSE Converted(w, ConvertAsciiHexIfNeeded(w.data))
    IN  Stripped(StripNovatelWrapper(frame_data))

RECURSIVE PasscomDrain(_, _)
\* the while True loop of parse_passcom_frame: p the parser, extracted the
\* frames collected so far.  An empty frame body is falsy and ends the loop.
PasscomDrain(p, extracted) ==
    LET Processed(x, r) ==
            PasscomDrain([p EXCEPT !.frame_buffer = x.buf,
                                   !.wrapper_strip_count = @ + r.wrapper,
                                   !.ascii_hex_conversions = @ + r.hex,
                                   !.mode_s_frames_extracted = @ + r.modes],
                         extracted \o r.frames)
        Extracted(x) ==
            IF ~x.some \/ Len(x.data) = 0
            THEN [parser |-> [p EXCEPT !.frame_buffer = x.buf], frames |-> extracted]
            ELSE Processed(x, ProcessFrameData(x.data))
    IN  Extracted(ExtractNextFrame(p.frame_buffer))

\* parse_passcom_frame(raw_data): the parser afterwards and the returned list
ParsePasscomFrame(p, raw_data) ==
    LET p0 == [p EXCEPT !.frames_processed = @ + 1]
        Drained(d) ==
            IF Len(d.frames) > 0
            THEN [parser |-> [d.parser EXCEPT !.frames_parsed_successfully = @ + 1],
                  frames |-> d.frames]
            ELSE d
    IN  IF raw_data = NoneMsg
        THEN [parser |-> [p0 EXCEPT !.parse_errors = @ + 1], frames |-> <<>>]
        ELSE Drained(PasscomDrain([p0 EXCEPT !.frame_buffer = @ \o raw_data], <<>>))

\* is_passcom_frame
IsPasscomFrame(data) ==
    \/ Find(data, FRAME_START_MARKER) # -1
    \/ \E st \in 0..(Len(data) - 1) : WrapperMatchEnd(data, st) # -1

\* NovAtelPasscomParser.reset_stats
PasscomResetStats(p) == [PasscomInit EXCEPT !.frame_buffer = p.frame_buffer]

----------------------------------------------------------------------------
(* GDL90Deframer                                                           *)

FLAG_BYTE == 126

ESCAPE_BYTE == 125

ESCAPE_FLAG == 94

ESCAPE_ESC == 93

MSG_ADSB_LONG == 38

MIN_ADSB_PAYLOAD_LENGTH == 14

MAX_ADSB_PAYLOAD_LENGTH == 18

\* GDL90Deframer.__init__
Gdl90Init ==
    [frames_processed |-> 0, frames_extracted |-> 0, adsb_messages_found |-> 0,
     deframing_errors |-> 0, byte_unstuff_operations |-> 0]

RECURSIVE FindFrameBoundariesAt(_, _, _, _)
\* the for loop of _find_frame_boundaries at 0-based index i; start_pos = -1
\* is None
FindFrameBoundariesAt(data, i, start_pos, boundaries) ==
    IF i >= Len(data) THEN boundaries
    ELSE IF data[i + 1] # FLAG_BYTE
    THEN FindFrameBoundariesAt(data, i + 1, start_pos, boundaries)
    ELSE IF start_pos = -1
    THEN FindFrameBoundariesAt(data, i + 1, i, boundaries)
    ELSE FindFrameBoundariesAt(data, i + 1, i,
             IF i > start_pos + 1 THEN Append(boundaries, <<start_pos, i>>)
             ELSE boundaries)

\* _find_frame_boundaries
FindFrameBoundaries(data) == FindFrameBoundariesAt(data, 0, -1, <<>>)

RECURSIVE UnstuffBytesAt(_, _, _, _)
\* the while loop of _unstuff_bytes at 0-based index i
UnstuffBytesAt(frame_data, i, unstuffed, ops) ==
    IF i >= Len(frame_data) THEN [some |-> TRUE, data |-> unstuffed, ops |-> ops]
    ELSE IF frame_data[i + 1] = ESCAPE_BYTE /\ i + 1 < Len(frame_data)
    THEN IF frame_data[i + 2] = ESCAPE_FLAG
         THEN UnstuffBytesAt(frame_data, i + 2, Append(unstuffed, FLAG_BYTE), ops + 1)
         ELSE IF frame_data[i + 2] = ESCAPE_ESC
         THEN UnstuffBytesAt(frame_data, i + 2, Append(unstuffed, ESCAPE_BYTE), ops + 1)
         ELSE UnstuffBytesAt(frame_data, i + 1, Append(unstuffed, frame_data[i + 1]), ops)
    ELSE UnstuffBytesAt(frame_data, i + 1, Append(unstuffed, frame_data[i + 1]), ops)

\* _unstuff_bytes that copies the frame content and resolves no escape
UnstuffBytes_KeepsEscapes(frame_data) ==
    IF Len(frame_data) = 0 THEN [some |-> FALSE, data |-> <<>>, ops |-> 0]
    ELSE [some |-> TRUE, data |-> frame_data, ops |-> 0]

\* _unstuff_bytes: some = FALSE is None, ops the byte_unstuff_operations made
UnstuffBytes(frame_data) ==
    IF Len(frame_data) = 0 THEN [some |-> FALSE, data |-> <<>>, ops |-> 0]
    ELSE UnstuffBytesAt(frame_data, 0, <<>>, 0)

\* _validate_adsb_message that checks the length only
ValidateAdsbMessage_AnyDf(payload) ==
    ~(Len(payload) < MIN_ADSB_PAYLOAD_LENGTH \/ Len(payload) > MAX_ADSB_PAYLOAD_LENGTH)

\* _validate_adsb_message
ValidateAdsbMessage(payload) ==
    IF Len(payload) < MIN_ADSB_PAYLOAD_LENGTH \/ Len(payload) > MAX_ADSB_PAYLOAD_LENGTH
    THEN FALSE
    ELSE DF(payload[1]) \in {17, 18, 19}

\* _extract_adsb_payload that leaves the sub-id byte in the payload and
\* skips its validation
ExtractAdsbPayload_KeepsHeader(unstuffed_data) ==
    LET adsb_payload == From(unstuffed_data, 1)
    IN  IF Len(unstuffed_data) < 2 THEN {}
        ELSE IF unstuffed_data[1] # MSG_ADSB_LONG THEN {}
        ELSE IF Len(unstuffed_data) < 2 + MIN_ADSB_PAYLOAD_LENGTH THEN {}
        ELSE IF Len(adsb_payload) > MAX_ADSB_PAYLOAD_LENGTH THEN {}
        ELSE {adsb_payload}

\* _extract_adsb_payload: the payload in a one-element set, or {} for None
ExtractAdsbPayload(unstuffed_data) ==
    LET adsb_payload == From(unstuffed_data, 2)
    IN  IF Len(unstuffed_data) < 2 THEN {}
        ELSE IF unstuffed_data[1] # MSG_ADSB_LONG THEN {}
        ELSE IF Len(unstuffed_data) < 2 + MIN_ADSB_PAYLOAD_LENGTH THEN {}
        ELSE IF Len(adsb_payload) > MAX_ADSB_PAYLOAD_LENGTH THEN {}
        ELSE IF ValidateAdsbMessage(adsb_payload) THEN {adsb_payload}
        ELSE {}

RECURSIVE DeframeFrames(_, _, _, _, _)
\* the for loop of deframe_message over frame_boundaries[k..]
DeframeFrames(g, raw_data, boundaries, k, adsb_messages) ==
    LET Payload(u, pl) ==
            IF ~u.some \/ Len(u.data) = 0 \/ pl = {}
            THEN DeframeFrames([g EXCEPT !.frames_processed = @ + 1,
                                         !.byte_unstuff_operations = @ + u.ops],
                               raw_data, boundaries, k + 1, adsb_messages)
            ELSE DeframeFrames([g EXCEPT !.frames_processed = @ + 1,
                                         !.byte_unstuff_operations = @ + u.ops,
                                         !.adsb_messages_found = @ + 1],
                               raw_data, boundaries, k + 1,
                               Append(adsb_messages, CHOOSE x \in pl : TRUE))
        Unstuffed(u) == Payload(u, ExtractAdsbPayload(u.data))
    IN  IF k > Len(boundaries)
        THEN [deframer |-> [g EXCEPT !.frames_extracted = @ + Len(adsb_messages)],
              messages |-> adsb_messages]
        ELSE Unstuffed(UnstuffBytes(Slice(raw_data, boundaries[k][1] + 1,
                                          boundaries[k][2])))

\* deframe_message(raw_data): the deframer afterwards and the returned list
DeframeMessage(g, raw_data) ==
    IF raw_data = NoneMsg \/ Len(raw_data) = 0
    THEN [deframer |-> g, messages |-> <<>>]
    ELSE DeframeFrames(g, raw_data, FindFrameBoundaries(raw_data), 1, <<>>)

\* is_gdl90_frame
IsGdl90Frame(data) ==
    IF Len(data) < 4 THEN FALSE
    ELSE data[1] = FLAG_BYTE /\ data[Len(data)] = FLAG_BYTE /\ Len(data) > 10

\* a reset_stats that forgets to clear byte_unstuff_operations
Gdl90ResetStats_KeepsUnstuff(g) ==
    [Gdl90Init EXCEPT !.byte_unstuff_operations = g.byte_unstuff_operations]

\* GDL90Deframer.reset_stats
Gdl90ResetStats(g) == Gdl90Init

----------------------------------------------------------------------------
(* ADSBAltitudeDecoder.  raw_msg is the hex string of a message: a         *)
(* sequence of ASCII codes.                                                *)

MIN_VALID_ALTITUDE_FT == -1000

MAX_VALID_ALTITUDE_FT == 60000

ENABLE_ALTITUDE_SANITY_CHECKS == TRUE

\* ADSBAltitudeDecoder.__init__
AltitudeInit ==
    [altitudes_decoded |-> 0, barometric_altitudes |-> 0, geometric_altitudes |-> 0,
     q_bit_zero_count |-> 0, q_bit_one_count |-> 0, gillham_conversions |-> 0,
     sanity_check_failures |-> 0, decode_errors |-> 0,
     min_valid_altitude |-> MIN_VALID_ALTITUDE_FT,
     max_valid_altitude |-> MAX_VALID_ALTITUDE_FT,
     enable_sanity_checks |-> ENABLE_ALTITUDE_SANITY_CHECKS]

HexChar(v) == IF v < 10 THEN 48 + v ELSE 87 + v

RECURSIVE BytesHex(_)
\* bytes.hex()
BytesHex(b) ==
    IF Len(b) = 0 THEN <<>>
    ELSE <<HexChar(b[1] \div 16), HexChar(b[1] % 16)>> \o BytesHex(Tail(b))

\* bytes.fromhex(raw_msg)
BytesFromHex(raw_msg) == FromHexAt(raw_msg, 1, <<>>)

RECURSIVE BitXor(_, _)
\* a ^ b
BitXor(a, b) ==
    IF a = 0 THEN b
    ELSE IF b = 0 THEN a
    ELSE (((a % 2) + (b % 2)) % 2) + 2 * BitXor(a \div 2, b \div 2)

\* a Gray conversion that folds in the first shifted mask only
GrayFold_OneStep(gray_code, mask) == BitXor(gray_code, mask)

RECURSIVE GrayFold(_, _)
\* the while loop of _convert_gray_to_binary
GrayFold(gray_code, mask) ==
    IF mask = 0 THEN gray_code
    ELSE GrayFold(BitXor(gray_code, mask), mask \div 2)

\* _convert_gray_to_binary
ConvertGrayToBinary(gray_code) == GrayFold(gray_code, gray_code \div 2)

\* _decode_gillham_altitude
DecodeGillhamAltitude(altitude_field) == ConvertGrayToBinary(altitude_field) * 100 - 1000

\* (msg_bytes[2] << 16) | (msg_bytes[3] << 8) | msg_bytes[4]
AltitudeBits(msg_bytes) == msg_bytes[3] * 65536 + msg_bytes[4] * 256 + msg_bytes[5]

\* (altitude_bits >> 4) & 0x1FFF
AltitudeField(altitude_bits) == (altitude_bits \div 16) % 8192

\* the Q-bit as the decoder reads it: (altitude_bits >> 4) & 0x01
QBit(altitude_bits) == (altitude_bits \div 16) % 2

\* ((altitude_field & 0x1FE0) >> 1) | (altitude_field & 0x000F)
AltitudeCode(altitude_field) == (altitude_field \div 32) * 16 + (altitude_field % 16)

\* the altitude before the offset correction
BaroBase(altitude_bits) ==
    IF QBit(altitude_bits) = 1
    THEN AltitudeCode(AltitudeField(altitude_bits)) * 25 - 1000
    ELSE DecodeGillhamAltitude(AltitudeField(altitude_bits))

\* no offset correction
OffsetCorrected_Skipped(altitude_ft) == altitude_ft

\* the offset correction: +1000 when ((altitude_ft + 1000) // 25 >> 6) & 0x07 == 5
OffsetCorrected(altitude_ft) ==
    IF (((altitude_ft + 1000) \div 25) \div 64) % 8 = 5 THEN altitude_ft + 1000
    ELSE altitude_ft

\* _decode_barometric_altitude: alt is {} for None; q0, q1, gillham are the
\* increments of q_bit_zero_count, q_bit_one_count, gillham_conversions
DecodeBarometricAltitude(raw_msg) ==
    LET Decoded(altitude_bits, q_bit) ==
            [alt |-> {OffsetCorrected(BaroBase(altitude_bits))},
             q0 |-> 1 - q_bit, q1 |-> q_bit, gillham |-> 1 - q_bit]
        Field(altitude_bits) == Decoded(altitude_bits, QBit(altitude_bits))
        Converted(conv) ==
            IF ~conv.ok \/ Len(conv.bytes) < 14
            THEN [alt |-> {}, q0 |-> 0, q1 |-> 0, gillham |-> 0]
            ELSE Field(AltitudeBits(conv.bytes))
    IN  Converted(BytesFromHex(raw_msg))

\* the rational num/4 rounded down
TruncDiv4_Floor(num) == num \div 4

\* int(x) of the rational num/4: truncation toward zero
TruncDiv4(num) == IF num >= 0 THEN num \div 4 ELSE -((-num) \div 4)

\* _decode_geometric_altitude: {} for None
DecodeGeometricAltitude(raw_msg) ==
    LET Converted(conv) ==
            IF ~conv.ok \/ Len(conv.bytes) < 14 THEN {}
            ELSE {TruncDiv4(((AltitudeBits(conv.bytes) \div 32) % 4096) * 25 - 4000)}
    IN  Converted(BytesFromHex(raw_msg))

\* _is_altitude_valid with exclusive bounds
IsAltitudeValid_Strict(a, altitude) ==
    a.min_valid_altitude < altitude /\ altitude < a.max_valid_altitude

\* _is_altitude_valid
IsAltitudeValid(a, altitude) ==
    a.min_valid_altitude <= altitude /\ altitude <= a.max_valid_altitude

\* _validate_altitude_data; altitude_data is a dict with the keys it has.
\* The consistency check on |geo - baro| only logs.
ValidateAltitudeData(a, altitude_data) ==
    IF "altitude_baro_ft" \in DOMAIN altitude_data
       /\ ~IsAltitudeValid(a, altitude_data["altitude_baro_ft"])
    THEN FALSE
    ELSE IF "altitude_geo_ft" \in DOMAIN altitude_data
            /\ ~IsAltitudeValid(a, altitude_data["altitude_geo_ft"])
    THEN FALSE
    ELSE TRUE

\* the empty dict
EmptyDict == [k \in {} |-> 0]

\* dict.update: the keys of b overwrite those of a
DictUpdate(a, b) ==
    [k \in (DOMAIN a) \cup (DOMAIN b) |-> IF k \in DOMAIN b THEN b[k] ELSE a[k]]

\* a dict with one key
Dict1(k, v) == [x \in {k} |-> v]

\* the wall-clock value of datetime.now(timezone.utc)
Now == "now"

\* decode_altitude without the sanity check
DecodeAltitude_NoSanity(a, raw_msg, type_code) ==
    LET Checked(a1, altitude_data) ==
            IF DOMAIN altitude_data # {}
            THEN [decoder |-> [a1 EXCEPT !.altitudes_decoded = @ + 1],
                  result |-> {DictUpdate(altitude_data, Dict1("altitude_decoded_at", Now))}]
            ELSE [decoder |-> a1, result |-> {}]
        Barometric(baro) ==
            Checked([a EXCEPT !.q_bit_zero_count = @ + baro.q0,
                              !.q_bit_one_count = @ + baro.q1,
                              !.gillham_conversions = @ + baro.gillham,
                              !.barometric_altitudes = @ + Cardinality(baro.alt)],
                    IF baro.alt # {}
                    THEN Dict1("altitude_baro_ft", CHOOSE x \in baro.alt : TRUE)
                    ELSE EmptyDict)
        Geometric(geo) ==
            Checked([a EXCEPT !.geometric_altitudes = @ + Cardinality(geo)],
                    IF geo # {}
                    THEN Dict1("altitude_geo_ft", CHOOSE x \in geo : TRUE)
                    ELSE EmptyDict)
    IN  IF 9 <= type_code /\ type_code <= 18
        THEN Barometric(DecodeBarometricAltitude(raw_msg))
        ELSE IF type_code = 31
        THEN Geometric(DecodeGeometricAltitude(raw_msg))
        ELSE [decoder |-> a, result |-> {}]

\* decode_altitude(raw_msg, type_code): the decoder afterwards and the
\* returned dict in a one-element set, or {} for None
DecodeAltitude(a, raw_msg, type_code) ==
    LET Checked(a1, altitude_data) ==
            IF DOMAIN altitude_data # {} /\ a.enable_sanity_checks
               /\ ~ValidateAltitudeData(a, altitude_data)
            THEN [decoder |-> [a1 EXCEPT !.sanity_check_failures = @ + 1], result |-> {}]
            ELSE IF DOMAIN altitude_data # {}
            THEN [decoder |-> [a1 EXCEPT !.altitudes_decoded = @ + 1],
                  result |-> {DictUpdate(altitude_data, Dict1("altitude_decoded_at", Now))}]
            ELSE [decoder |-> a1, result |-> {}]
        Barometric(baro) ==
            Checked([a EXCEPT !.q_bit_zero_count = @ + baro.q0,
                              !.q_bit_one_count = @ + baro.q1,
                              !.gillham_conversions = @ + baro.gillham,
                              !.barometric_altitudes = @ + Cardinality(baro.alt)],
                    IF baro.alt # {}
                    THEN Dict1("altitude_baro_ft", CHOOSE x \in baro.alt : TRUE)
                    ELSE EmptyDict)
        Geometric(geo) ==
            Checked([a EXCEPT !.geometric_altitudes = @ + Cardinality(geo)],
                    IF geo # {}
                    THEN Dict1("altitude_geo_ft", CHOOSE x \in geo : TRUE)
                    ELSE EmptyDict)
    IN  IF 9 <= type_code /\ type_code <= 18
        THEN Barometric(DecodeBarometricAltitude(raw_msg))
        ELSE IF type_code = 31
        THEN Geometric(DecodeGeometricAltitude(raw_msg))
        ELSE [decoder |-> a, result |-> {}]

\* a reset_stats that forgets to clear sanity_check_failures
AltitudeResetStats_KeepsFailures(a) ==
    [a EXCEPT !.altitudes_decoded = 0, !.barometric_altitudes = 0,
              !.geometric_altitudes = 0, !.q_bit_zero_count = 0,
              !.q_bit_one_count = 0, !.gillham_conversions = 0,
              !.decode_errors = 0]

\* ADSBAltitudeDecoder.reset_stats
AltitudeResetStats(a) ==
    [a EXCEPT !.altitudes_decoded = 0, !.barometric_altitudes = 0,
              !.geometric_altitudes = 0, !.q_bit_zero_count = 0,
              !.q_bit_one_count = 0, !.gillham_conversions = 0,
              !.sanity_check_failures = 0, !.decode_errors = 0]

----------------------------------------------------------------------------
(* ADSBParser.  The pyModeS calls (adsb.df, adsb.icao, adsb.typecode) read *)
(* fixed positions of the hex string; the outcome of the pyModeS field     *)
(* decoders (callsign/category, position_with_ref, velocity) is an input   *)
(* of the call: "ok", "none" or "raise" for each candidate.                *)

ENABLE_PASSCOM_PARSER == TRUE

ACCEPTED_DOWNLINK_FORMATS == {17, 18}

ENABLE_GEOMETRIC_ALTITUDE == TRUE

LOG_PARSE_ATTEMPTS == TRUE

ExtOutcomes == {"ok", "none", "raise"}

\* ADSBParser.__init__
AdsbInit ==
    [parse_error_count |-> 0, messages_parsed |-> 0,
     gdl90_messages_processed |-> 0, raw_messages_processed |-> 0,
     passcom_messages_processed |-> 0,
     aircraft_data |-> EmptyDict, last_valid_data |-> EmptyDict]

\* adsb.df(raw_msg): the first five bits, capped at 24
PmsDf(raw_msg) ==
    LET b == BytesFromHex(Slice(raw_msg, 0, 2)).bytes
        d == DF(b[1])
    IN  IF d < 24 THEN d ELSE 24

\* adsb.icao(raw_msg) for DF 17/18
PmsIcao(raw_msg) == Slice(raw_msg, 2, 8)

\* adsb.typecode(raw_msg) raises on a message with no fifth byte
PmsTypecodeRaises(raw_msg) == Len(Slice(raw_msg, 8, 10)) = 0

\* adsb.typecode(raw_msg) for DF 17/18
PmsTypecode(raw_msg) == BytesFromHex(Slice(raw_msg, 8, 10)).bytes[1] \div 8

\* _preprocess_message trying the GDL-90 heuristic before the PASSCOM sniff
PreprocessMessage_GdlFirst(ap, pp, gd, raw_message) ==
    LET ViaPasscom(pr) ==
            [parser |-> [ap EXCEPT !.passcom_messages_processed = @ + 1],
             passcom |-> pr.parser, gdl90 |-> gd, route |-> "passcom",
             messages |-> pr.frames]
        ViaGdl90(dr) ==
            [parser |-> [ap EXCEPT !.gdl90_messages_processed = @ + 1],
             passcom |-> pp, gdl90 |-> dr.deframer, route |-> "gdl90",
             messages |-> dr.messages]
    IN  IF IsGdl90Frame(raw_message)
        THEN ViaGdl90(DeframeMessage(gd, raw_message))
        ELSE IF ENABLE_PASSCOM_PARSER /\ IsPasscomFrame(raw_message)
        THEN ViaPasscom(ParsePasscomFrame(pp, raw_message))
        ELSE [parser |-> [ap EXCEPT !.raw_messages_processed = @ + 1],
              passcom |-> pp, gdl90 |-> gd, route |-> "raw",
              messages |-> <<raw_message>>]

\* _preprocess_message: the candidate list, and the parser, PASSCOM parser
\* and GDL-90 deframer afterwards
PreprocessMessage(ap, pp, gd, raw_message) ==
    LET ViaPasscom(pr) ==
            [parser |-> [ap EXCEPT !.passcom_messages_processed = @ + 1],
             passcom |-> pr.parser, gdl90 |-> gd, route |-> "passcom",
             messages |-> pr.frames]
        ViaGdl90(dr) ==
            [parser |-> [ap EXCEPT !.gdl90_messages_processed = @ + 1],
             passcom |-> pp, gdl90 |-> dr.deframer, route |-> "gdl90",
             messages |-> dr.messages]
    IN  IF ENABLE_PASSCOM_PARSER /\ IsPasscomFrame(raw_message)
        THEN ViaPasscom(ParsePasscomFrame(pp, raw_message))
        ELSE IF IsGdl90Frame(raw_message)
        THEN ViaGdl90(DeframeMessage(gd, raw_message))
        ELSE [parser |-> [ap EXCEPT !.raw_messages_processed = @ + 1],
              passcom |-> pp, gdl90 |-> gd, route |-> "raw",
              messages |-> <<raw_message>>]

\* _extract_aviation_data: the dict in a one-element set or {} for None, and
\* the altitude decoder afterwards.  ext is the outcome of the pyModeS field
\* decoder the type code selects.
ExtractAviationData(ad, raw_msg, icao, tc, ext) ==
    LET data == [k \in {"icao", "type_code", "parsed_timestamp"} |->
                    IF k = "icao" THEN icao ELSE IF k = "type_code" THEN tc ELSE Now]
        withPos == IF ext = "ok"
                   THEN DictUpdate(data, [k \in {"latitude", "longitude"} |-> raw_msg])
                   ELSE data
        ret(d) == IF Cardinality(DOMAIN d) > 3 THEN {d} ELSE {}
        WithAltitude(d, dec) ==
            [data |-> ret(IF dec.result = {} THEN d
                          ELSE DictUpdate(d, CHOOSE x \in dec.result : TRUE)),
             altitude |-> dec.decoder]
    IN  IF 1 <= tc /\ tc <= 4
        THEN [data |-> IF ext = "ok"
                       THEN {DictUpdate(data, [k \in {"callsign", "category"} |-> raw_msg])}
                       ELSE {},
              altitude |-> ad]
        ELSE IF 5 <= tc /\ tc <= 8
        THEN [data |-> ret(withPos), altitude |-> ad]
        ELSE IF 9 <= tc /\ tc <= 18
        THEN WithAltitude(withPos, DecodeAltitude(ad, raw_msg, tc))
        ELSE IF tc = 19
        THEN [data |-> IF ext = "ok"
                       THEN {DictUpdate(data,
                               [k \in {"speed_knots", "heading", "vertical_rate"} |-> raw_msg])}
                       ELSE {},
              altitude |-> ad]
        ELSE IF tc = 31 /\ ENABLE_GEOMETRIC_ALTITUDE
        THEN WithAltitude(data, DecodeAltitude(ad, raw_msg, tc))
        ELSE [data |-> {}, altitude |-> ad]

\* _parse_adsb_payload that replaces the aircraft's entry by the new dict
ParseAdsbPayload_Overwrites(ap, ad, adsb_payload, ext) ==
    LET ap1 == [ap EXCEPT !.messages_parsed = @ + 1]
        Updated(icao, aviation_data) ==
            [ap1 EXCEPT
               !.aircraft_data = DictUpdate(@, Dict1(icao, aviation_data)),
               !.last_valid_data = DictUpdate(@, aviation_data)]
        Extracted(icao, x) ==
            IF x.data # {}
            THEN [parser |-> Updated(icao, CHOOSE d \in x.data : TRUE),
                  altitude |-> x.altitude, result |-> x.data, raised |-> FALSE]
            ELSE [parser |-> ap1, altitude |-> x.altitude, result |-> {},
                  raised |-> FALSE]
        Hex(raw_msg) ==
            IF PmsDf(raw_msg) \notin ACCEPTED_DOWNLINK_FORMATS
            THEN [parser |-> ap, altitude |-> ad, result |-> {}, raised |-> FALSE]
            ELSE IF PmsTypecodeRaises(raw_msg)
            THEN [parser |-> ap1, altitude |-> ad, result |-> {}, raised |-> TRUE]
            ELSE Extracted(PmsIcao(raw_msg),
                           ExtractAviationData(ad, raw_msg, PmsIcao(raw_msg),
                                               PmsTypecode(raw_msg), ext))
    IN  Hex(BytesHex(adsb_payload))

\* _parse_adsb_payload: result is the returned dict in a one-element set or
\* {} for None; raised tells that an exception left the method
ParseAdsbPayload(ap, ad, adsb_payload, ext) ==
    LET ap1 == [ap EXCEPT !.messages_parsed = @ + 1]
        Updated(icao, aviation_data) ==
            [ap1 EXCEPT
               !.aircraft_data =
                   DictUpdate(@, Dict1(icao,
                       DictUpdate(IF icao \in DOMAIN ap1.aircraft_data
                                  THEN ap1.aircraft_data[icao] ELSE EmptyDict,
                                  aviation_data))),
               !.last_valid_data = DictUpdate(@, aviation_data)]
        Extracted(icao, x) ==
            IF x.data # {}
            THEN [parser |-> Updated(icao, CHOOSE d \in x.data : TRUE),
                  altitude |-> x.altitude, result |-> x.data, raised |-> FALSE]
            ELSE [parser |-> ap1, altitude |-> x.altitude, result |-> {},
                  raised |-> FALSE]
        Hex(raw_msg) ==
            IF PmsDf(raw_msg) \notin ACCEPTED_DOWNLINK_FORMATS
            THEN [parser |-> ap, altitude |-> ad, result |-> {}, raised |-> FALSE]
            ELSE IF PmsTypecodeRaises(raw_msg)
            THEN [parser |-> ap1, altitude |-> ad, result |-> {}, raised |-> TRUE]
            ELSE Extracted(PmsIcao(raw_msg),
                           ExtractAviationData(ad, raw_msg, PmsIcao(raw_msg),
                                               PmsTypecode(raw_msg), ext))
    IN  Hex(BytesHex(adsb_payload))

\* the outcome of the pyModeS field decoder for the i-th candidate
ExtAt(oracle, i) == IF i <= Len(oracle) THEN oracle[i] ELSE "ok"

\* the loop of parse_message giving up after its first candidate
ParseCandidates_FirstOnly(ap, ad, processed_messages, i, oracle) ==
    IF i > Len(processed_messages)
    THEN [parser |-> ap, altitude |-> ad, result |-> {}, raised |-> FALSE]
    ELSE ParseAdsbPayload(ap, ad, processed_messages[i], ExtAt(oracle, i))

RECURSIVE ParseCandidates(_, _, _, _, _)
\* the for loop of parse_message over processed_messages[i..]
ParseCandidates(ap, ad, processed_messages, i, oracle) ==
    LET Tried(r) ==
            IF r.raised \/ r.result # {} THEN r
            ELSE ParseCandidates(r.parser, r.altitude, processed_messages, i + 1, oracle)
    IN  IF i > Len(processed_messages)
        THEN [parser |-> ap, altitude |-> ad, result |-> {}, raised |-> FALSE]
        ELSE Tried(ParseAdsbPayload(ap, ad, processed_messages[i], ExtAt(oracle, i)))

\* parse_message with an except clause that does not count the error
ParseMessageOp_NoErrorCount(ap, pp, gd, ad, message, oracle) ==
    LET Parsed(pre, r) ==
            [parser |-> r.parser,
             passcom |-> pre.passcom, gdl90 |-> pre.gdl90, altitude |-> r.altitude,
             result |-> r.result, raised |-> r.raised, route |-> pre.route,
             messages |-> pre.messages]
        Preprocessed(pre) ==
            Parsed(pre, ParseCandidates(pre.parser, ad, pre.messages, 1, oracle))
    IN  IF message = NoneMsg /\ LOG_PARSE_ATTEMPTS
        THEN [parser |-> ap, passcom |-> pp,
              gdl90 |-> gd, altitude |-> ad, result |-> {}, raised |-> TRUE,
              route |-> "none", messages |-> <<>>]
        ELSE IF message = NoneMsg \/ Len(message) = 0
        THEN [parser |-> ap, passcom |-> pp, gdl90 |-> gd, altitude |-> ad,
              result |-> {}, raised |-> FALSE, route |-> "none", messages |-> <<>>]
        ELSE Preprocessed(PreprocessMessage(ap, pp, gd, message))

\* parse_message(message): the four objects afterwards, the return value
\* (result = {} is None), the candidate list and the route taken; raised
\* tells that the except clause ran
ParseMessageOp(ap, pp, gd, ad, message, oracle) ==
    LET Parsed(pre, r) ==
            [parser |-> IF r.raised
                        THEN [r.parser EXCEPT !.parse_error_count = @ + 1]
                        ELSE r.parser,
             passcom |-> pre.passcom, gdl90 |-> pre.gdl90, altitude |-> r.altitude,
             result |-> r.result, raised |-> r.raised, route |-> pre.route,
             messages |-> pre.messages]
        Preprocessed(pre) ==
            Parsed(pre, ParseCandidates(pre.parser, ad, pre.messages, 1, oracle))
    IN  IF message = NoneMsg /\ LOG_PARSE_ATTEMPTS
        THEN [parser |-> [ap EXCEPT !.parse_error_count = @ + 1], passcom |-> pp,
              gdl90 |-> gd, altitude |-> ad, result |-> {}, raised |-> TRUE,
              route |-> "none", messages |-> <<>>]
        ELSE IF message = NoneMsg \/ Len(message) = 0
        THEN [parser |-> ap, passcom |-> pp, gdl90 |-> gd, altitude |-> ad,
              result |-> {}, raised |-> FALSE, route |-> "none", messages |-> <<>>]
        ELSE Preprocessed(PreprocessMessage(ap, pp, gd, message))

\* ADSBParser.reset_stats on the parser's own counters
AdsbResetStats(ap) ==
    [ap EXCEPT !.parse_error_count = 0, !.messages_parsed = 0,
               !.gdl90_messages_processed = 0, !.raw_messages_processed = 0,
               !.passcom_messages_processed = 0]

----------------------------------------------------------------------------
(* Inputs.                                                                 *)

\* a 14-byte Mode-S frame with first byte b0, address bytes 0x48, b2, b3 and
\* first ME byte b4 (type code in its top five bits); the other bytes are
\* those of 8D4840D6202CC371C32CE0576098
MkFrame(b0, b2, b3, b4) ==
    <<b0, 72, b2, b3, b4, 44, 195, 113, 195, 44, 224, 87, 96, 152>>

\* a PASSCOM frame: marker, 16-bit big-endian length, body
PasscomFrame(body) ==
    FRAME_START_MARKER \o <<Len(body) \div 256, Len(body) % 256>> \o body

\* "Received packet from h:1: "
WrapperText == WrapperLiteral \o <<104, 58, 49, 58, 32>>

RECURSIVE Stuff(_)
\* the KISS stuffing that _unstuff_bytes removes
Stuff(b) ==
    IF Len(b) = 0 THEN <<>>
    ELSE (IF b[1] = FLAG_BYTE THEN <<ESCAPE_BYTE, ESCAPE_FLAG>>
          ELSE IF b[1] = ESCAPE_BYTE THEN <<ESCAPE_BYTE, ESCAPE_ESC>>
          ELSE <<b[1]>>) \o Stuff(Tail(b))

\* a GDL-90 ADS-B Long Report frame around payload p
Gdl90Frame(sub_id, p) == <<FLAG_BYTE, MSG_ADSB_LONG, sub_id>> \o Stuff(p) \o <<FLAG_BYTE>>

\* 8B9A7E479967CCD9C82B84D1FFEBCCA0
SamplePayload ==
    <<139, 154, 126, 71, 153, 103, 204, 217, 200, 43, 132, 209, 255, 235, 204, 160>>

\* 7E26008B9A7D5E479967CCD9C82B84D1FFEBCCA07E
Gdl90Sample == Gdl90Frame(0, SamplePayload)

FrameIdent == MkFrame(141, 64, 214, 32)

FrameBaro == MkFrame(141, 64, 214, 88)

FrameBaroHigh == MkFrame(141, 65, 255, 88)

FrameVelocity == MkFrame(141, 64, 214, 153)

FrameGeo == MkFrame(141, 64, 214, 248)

FrameTc0 == MkFrame(141, 64, 214, 0)

FrameDf11 == MkFrame(93, 64, 214, 32)

\* a GDL-90 heartbeat-like frame: flags at both ends, no 0x7E 0x26
Gdl90Other == <<126, 0, 129, 65, 219, 208, 8, 2, 179, 139, 126>>

\* a GDL-90 frame of another message type with two escape sequences
Gdl90Escaped == <<126, 0, 125, 94, 129, 65, 125, 93, 8, 2, 179, 126>>

\* a PASSCOM frame that also starts and ends with the flag byte
PasscomAndGdl90 == PasscomFrame(MkFrame(141, 64, 214, 32) \o <<126>>)

\* b"corrupted"
Garbage == <<99, 111, 114, 114, 117, 112, 116, 101, 100>>

\* a PASSCOM frame split over two datagrams: marker, length and the first
\* six body bytes
PartialHead == SubSeq(PasscomFrame(FrameIdent), 1, 10)

\* the remaining eight body bytes
PartialTail == From(PasscomFrame(FrameIdent), 10)

Datagrams ==
    { NoneMsg, <<>>, <<141>>, Garbage,
      FrameIdent, FrameBaro, FrameBaroHigh, FrameGeo, FrameDf11,
      PasscomFrame(FrameIdent),
      PasscomFrame(FrameDf11 \o FrameBaro),
      PasscomFrame(FrameIdent \o FrameBaro),
      PasscomFrame(FrameTc0) \o PasscomFrame(FrameVelocity),
      PasscomFrame(FrameVelocity) \o PasscomFrame(FrameIdent),
      PasscomFrame(WrapperText \o BytesHex(FrameBaro)),
      WrapperText \o Garbage,
      PartialHead, PartialTail,
      FRAME_START_MARKER \o <<255, 255>> \o Garbage,
      Gdl90Sample, Gdl90Other, Gdl90Escaped, PasscomAndGdl90 }

\* the outcomes of the pyModeS field decoders for the first two candidates
Oracles ==
    { <<"ok", "ok">>, <<"raise", "ok">>, <<"none", "ok">>, <<"ok", "raise">> }

\* the most parse_message calls made on one parser
MaxCalls == 2

----------------------------------------------------------------------------
(* The ADSBParser machine: parse_message calls and reset_stats on one      *)
(* parser built by ADSBParser.__init__.                                    *)

Init ==
    /\ adsb_parser = AdsbInit
    /\ passcom_parser = PasscomInit
    /\ gdl90_deframer = Gdl90Init
    /\ altitude_decoder = AltitudeInit
    /\ ref_parser = PasscomInit
    /\ call = [op |-> "init", n |-> 0]

\* parse_message(message)
ParseMessage(message, oracle) ==
    LET Returned(r) ==
            /\ adsb_parser' = r.parser
            /\ passcom_parser' = r.passcom
            /\ gdl90_deframer' = r.gdl90
            /\ altitude_decoder' = r.altitude
            /\ call' = [op |-> "parse_message", n |-> call.n + 1, message |-> message,
                        oracle |-> oracle, result |-> r.result, raised |-> r.raised,
                        route |-> r.route, messages |-> r.messages]
    IN  /\ call.n < MaxCalls
        /\ Returned(ParseMessageOp(adsb_parser, passcom_parser, gdl90_deframer,
                                   altitude_decoder, message, oracle))
        /\ UNCHANGED ref_parser

\* ADSBParser.reset_stats()
ResetStats ==
    /\ call.op = "parse_message"
    /\ adsb_parser' = AdsbResetStats(adsb_parser)
    /\ gdl90_deframer' = Gdl90ResetStats(gdl90_deframer)
    /\ passcom_parser' = IF ENABLE_PASSCOM_PARSER THEN PasscomResetStats(passcom_parser)
                         ELSE passcom_parser
    /\ altitude_decoder' = AltitudeResetStats(altitude_decoder)
    /\ call' = [op |-> "reset_stats", n |-> call.n]
    /\ UNCHANGED ref_parser

Next ==
    \/ \E message \in Datagrams, oracle \in Oracles : ParseMessage(message, oracle)
    \/ ResetStats

Spec == Init /\ [][Next]_vars

----------------------------------------------------------------------------
(* Direct calls on one NovAtelPasscomParser pair: the same length-prefixed *)
(* frame is given whole to ref_parser and in two pieces to passcom_parser. *)

SplitBodies ==
    { FrameIdent,
      FrameDf11 \o FrameBaro,
      FrameIdent \o FrameBaro \o FrameGeo,
      WrapperText \o BytesHex(FrameBaro),
      Garbage,
      <<65>> \o PasscomFrame(<<1, 2>>) \o <<3>> }

InitSplit ==
    /\ adsb_parser = AdsbInit
    /\ passcom_parser = PasscomInit
    /\ gdl90_deframer = Gdl90Init
    /\ altitude_decoder = AltitudeInit
    /\ ref_parser = PasscomInit
    /\ \E body \in SplitBodies : \E k \in 0..(Len(body) - 1) :
          call = [op |-> "split", n |-> 0, body |-> body, k |-> k,
                  split |-> 0, whole |-> 0, out_split |-> <<>>, out_whole |-> <<>>]

\* parse_passcom_frame(marker + length + body[:k]) on passcom_parser
ParseFirstPart ==
    LET Returned(r) ==
            /\ passcom_parser' = r.parser
            /\ call' = [call EXCEPT !.split = 1, !.out_split = @ \o r.frames]
    IN  /\ call.split = 0
        /\ Returned(ParsePasscomFrame(passcom_parser,
                        SubSeq(PasscomFrame(call.body), 1, 4 + call.k)))
        /\ UNCHANGED <<adsb_parser, gdl90_deframer, altitude_decoder, ref_parser>>

\* parse_passcom_frame(body[k:]) on passcom_parser
ParseRemainder ==
    LET Returned(r) ==
            /\ passcom_parser' = r.parser
            /\ call' = [call EXCEPT !.split = 2, !.out_split = @ \o r.frames]
    IN  /\ call.split = 1
        /\ Returned(ParsePasscomFrame(passcom_parser, From(call.body, call.k)))
        /\ UNCHANGED <<adsb_parser, gdl90_deframer, altitude_decoder, ref_parser>>

\* parse_passcom_frame(marker + length + body) on ref_parser
ParseWhole ==
    LET Returned(r) ==
            /\ ref_parser' = r.parser
            /\ call' = [call EXCEPT !.whole = 1, !.out_whole = r.frames]
    IN  /\ call.whole = 0
        /\ Returned(ParsePasscomFrame(ref_parser, PasscomFrame(call.body)))
        /\ UNCHANGED <<adsb_parser, gdl90_deframer, altitude_decoder, passcom_parser>>

NextSplit == ParseFirstPart \/ ParseRemainder \/ ParseWhole

SpecSplit == InitSplit /\ [][NextSplit]_vars

----------------------------------------------------------------------------
(* Direct calls of deframe_message on one GDL90Deframer.                   *)

\* a payload of len bytes: first byte first, the byte special at 1-based
\* position pos, the other bytes those of SamplePayload
PayloadOf(first, len, pos, special) ==
    [i \in 1..len |-> IF i = 1 THEN first
                      ELSE IF i = pos THEN special
                      ELSE (SamplePayload \o <<17, 34>>)[i]]

Payloads ==
    {SamplePayload} \cup
    { PayloadOf(first, len, pos, special) :
        first \in {136, 144, 152, 159}, len \in 14..18,
        pos \in {2, 18}, special \in {126, 125, 94} }

SubIds == {0, 125, 126}

\* the most deframe_message calls made on one deframer
MaxDeframes == 2

InitGdl ==
    /\ adsb_parser = AdsbInit
    /\ passcom_parser = PasscomInit
    /\ gdl90_deframer = Gdl90Init
    /\ altitude_decoder = AltitudeInit
    /\ ref_parser = PasscomInit
    /\ call = [op |-> "init", n |-> 0]

\* deframe_message(0x7E 0x26 sub_id stuff(payload) 0x7E)
DeframeFrame(sub_id, payload) ==
    LET Returned(raw, r) ==
            /\ gdl90_deframer' = r.deframer
            /\ call' = [op |-> "deframe_frame", n |-> call.n + 1, sub_id |-> sub_id,
                        payload |-> payload, raw |-> raw, result |-> r.messages]
        Framed(raw) == Returned(raw, DeframeMessage(gdl90_deframer, raw))
    IN  /\ call.n < MaxDeframes
        /\ Framed(Gdl90Frame(sub_id, payload))
        /\ UNCHANGED <<adsb_parser, passcom_parser, altitude_decoder, ref_parser>>

\* deframe_message(raw) on other bytes
DeframeRaw(raw) ==
    LET Returned(r) ==
            /\ gdl90_deframer' = r.deframer
            /\ call' = [op |-> "deframe_raw", n |-> call.n + 1, raw |-> raw,
                        result |-> r.messages]
    IN  /\ call.n < MaxDeframes
        /\ Returned(DeframeMessage(gdl90_deframer, raw))
        /\ UNCHANGED <<adsb_parser, passcom_parser, altitude_decoder, ref_parser>>

\* GDL90Deframer.reset_stats()
DeframerResetStats ==
    /\ call.op \in {"deframe_frame", "deframe_raw"}
    /\ gdl90_deframer' = Gdl90ResetStats(gdl90_deframer)
    /\ call' = [op |-> "reset_stats", n |-> call.n]
    /\ UNCHANGED <<adsb_parser, passcom_parser, altitude_decoder, ref_parser>>

NextGdl ==
    \/ \E sub_id \in SubIds, payload \in Payloads : DeframeFrame(sub_id, payload)
    \/ \E raw \in {<<>>, Garbage, Gdl90Other, FrameIdent,
                   Gdl90Sample \o SubSeq(Gdl90Sample, 2, Len(Gdl90Sample))} : DeframeRaw(raw)
    \/ DeframerResetStats

SpecGdl == InitGdl /\ [][NextGdl]_vars

----------------------------------------------------------------------------
(* Direct calls on one ADSBAltitudeDecoder, built with either value of     *)
(* ENABLE_ALTITUDE_SANITY_CHECKS.                                          *)

\* hex messages: frames over a sample of the bytes 2..4, a 13-byte message
\* and a string that is not hex
AltMessages ==
    { BytesHex(MkFrame(141, b2, b3, b4)) :
        b2 \in {64, 65}, b3 \in {0, 5, 96, 214, 255}, b4 \in {0, 16, 80, 88, 248} }
    \cup { BytesHex(SubSeq(FrameBaro, 1, 13)), <<122, 122>> }

AltTypeCodes == {5, 9, 11, 18, 31}

AltValues == {-5000, -1001, -1000, 0, 35000, 37000, 60000, 60001}

\* dicts with altitude_baro_ft and altitude_geo_ft each present or not
AltitudeDataSets ==
    {EmptyDict}
    \cup { Dict1("altitude_baro_ft", b) : b \in AltValues }
    \cup { Dict1("altitude_geo_ft", g) : g \in AltValues }
    \cup { DictUpdate(Dict1("altitude_baro_ft", b), Dict1("altitude_geo_ft", g)) :
             b \in AltValues, g \in AltValues }

\* the most decode_altitude calls made on one decoder
MaxDecodes == 2

InitAlt ==
    /\ adsb_parser = AdsbInit
    /\ passcom_parser = PasscomInit
    /\ gdl90_deframer = Gdl90Init
    /\ \E b \in BOOLEAN : altitude_decoder = [AltitudeInit EXCEPT !.enable_sanity_checks = b]
    /\ ref_parser = PasscomInit
    /\ call = [op |-> "init", n |-> 0]

\* decode_altitude(raw_msg, type_code)
DecodeAltitudeCall(raw_msg, type_code) ==
    LET Returned(r) ==
            /\ altitude_decoder' = r.decoder
            /\ call' = [op |-> "decode_altitude", n |-> call.n + 1, raw_msg |-> raw_msg,
                        type_code |-> type_code, result |-> r.result]
    IN  /\ call.n < MaxDecodes
        /\ Returned(DecodeAltitude(altitude_decoder, raw_msg, type_code))
        /\ UNCHANGED <<adsb_parser, passcom_parser, gdl90_deframer, ref_parser>>

\* _validate_altitude_data(altitude_data)
ValidateCall(altitude_data) ==
    /\ call' = [op |-> "validate", n |-> call.n, altitude_data |-> altitude_data,
                result |-> ValidateAltitudeData(altitude_decoder, altitude_data)]
    /\ UNCHANGED <<adsb_parser, passcom_parser, gdl90_deframer, altitude_decoder, ref_parser>>

\* ADSBAltitudeDecoder.reset_stats()
DecoderResetStats ==
    /\ call.op = "decode_altitude"
    /\ altitude_decoder' = AltitudeResetStats(altitude_decoder)
    /\ call' = [op |-> "reset_stats", n |-> call.n]
    /\ UNCHANGED <<adsb_parser, passcom_parser, gdl90_deframer, ref_parser>>

NextAlt ==
    \/ \E raw_msg \in AltMessages, type_code \in AltTypeCodes :
          DecodeAltitudeCall(raw_msg, type_code)
    \/ \E altitude_data \in AltitudeDataSets : ValidateCall(altitude_data)
    \/ DecoderResetStats

SpecAlt == InitAlt /\ [][NextAlt]_vars

----------------------------------------------------------------------------
(* _decode_barometric_altitude on a fresh decoder, over every value of the *)
(* 13-bit altitude field: bit 0 of byte 2, byte 3, the high nibble of      *)
(* byte 4.                                                                 *)

InitBaro ==
    /\ adsb_parser = AdsbInit
    /\ passcom_parser = PasscomInit
    /\ gdl90_deframer = Gdl90Init
    /\ altitude_decoder = AltitudeInit
    /\ ref_parser = PasscomInit
    /\ call = [op |-> "init", n |-> 0]

\* _decode_barometric_altitude(raw_msg) for the frame with bytes b2, b3, b4
DecodeBarometricCall(b2, b3, b4) ==
    LET Returned(msg, r) ==
            /\ altitude_decoder' =
                  [altitude_decoder EXCEPT !.q_bit_zero_count = @ + r.q0,
                                           !.q_bit_one_count = @ + r.q1,
                                           !.gillham_conversions = @ + r.gillham]
            /\ call' = [op |-> "decode_barometric", n |-> 1, msg |-> msg,
                        altitude_field |-> AltitudeField(AltitudeBits(msg)),
                        base |-> BaroBase(AltitudeBits(msg)), result |-> r.alt]
        Built(msg) == Returned(msg, DecodeBarometricAltitude(BytesHex(msg)))
    IN  /\ call.op = "init"
        /\ Built(MkFrame(141, b2, b3, b4))
        /\ UNCHANGED <<adsb_parser, passcom_parser, gdl90_deframer, ref_parser>>

NextBaro ==
    \E b2 \in {64, 65}, b3 \in 0..255, nib \in 0..15 : DecodeBarometricCall(b2, b3, nib * 16 + 8)

SpecBaro == InitBaro /\ [][NextBaro]_vars

----------------------------------------------------------------------------
(* Properties of parse_message, checked under Spec.                        *)

C3_SampleUsesGdl90Deframer ==
    (call.op = "parse_message" /\ call.n = 1 /\ call.message = Gdl90Sample) =>
        /\ adsb_parser.gdl90_messages_processed = 1
        /\ adsb_parser.passcom_messages_processed = 0
        /\ call.messages = DeframeMessage(Gdl90Init, Gdl90Sample).messages

\* C9: a parse_message call always returns, a dict or None; when a step
\* inside it raised, it returns None and parse_error_count grows by exactly
\* one, and otherwise parse_error_count is unchanged.  A None argument and a
\* DF 17/18 passthrough datagram too short to hold a type code are inputs on
\* which a step raises.
C9_ParseMessageNeverRaises ==
    [][ (call'.op = "parse_message" /\ call'.n = call.n + 1) =>
        LET m == call'.message
            de == adsb_parser'.parse_error_count - adsb_parser.parse_error_count
            short_raw == /\ m # NoneMsg /\ Len(m) > 0 /\ Len(m) < 5
                         /\ call'.route = "raw"
                         /\ DF(m[1]) \in ACCEPTED_DOWNLINK_FORMATS
        IN  /\ Cardinality(call'.result) <= 1
            /\ call'.raised => (call'.result = {} /\ de = 1)
            /\ ~call'.raised => de = 0
            /\ (m = NoneMsg \/ short_raw) => call'.raised
    ]_vars

\* a call raised inside and was counted, and the next call on the same
\* parser returned decoded data
C9_Witness ==
    /\ call.op = "parse_message"
    /\ call.n = 2
    /\ adsb_parser.parse_error_count = 1
    /\ ~call.raised
    /\ call.result # {}

\* C10: parse_message returns the result of the first candidate, in order,
\* that decodes, whatever happened to the candidates before it, and returns
\* None only when no candidate decodes.
C10_FirstDecodableCandidate ==
    (call.op = "parse_message" /\ call.route # "none") =>
        LET decodes(i) ==
                ParseAdsbPayload(AdsbInit, altitude_decoder, call.messages[i],
                                 ExtAt(call.oracle, i)).result
            good == { i \in 1..Len(call.messages) : decodes(i) # {} }
        IN  /\ good = {} => call.result = {}
            /\ good # {} =>
                  call.result = decodes(CHOOSE i \in good : \A j \in good : i <= j)

\* the first of two candidates failed inside its field decoder and the
\* result is the second candidate's
C10_Witness ==
    /\ call.op = "parse_message"
    /\ Len(call.messages) = 2
    /\ ExtAt(call.oracle, 1) = "raise"
    /\ ParseAdsbPayload(AdsbInit, altitude_decoder, call.messages[1], "raise").result = {}
    /\ ParseAdsbPayload(AdsbInit, altitude_decoder, call.messages[1], "ok").result # {}
    /\ call.result # {}
    /\ call.result =
          ParseAdsbPayload(AdsbInit, altitude_decoder, call.messages[2], "ok").result

----------------------------------------------------------------------------
(* Properties of NovAtelPasscomParser, checked under SpecSplit.            *)

\* C1: a length-prefixed frame fed to a fresh parser as marker + length + a
\* proper prefix of the body and then the remainder yields, over the two
\* calls together, the same Mode-S frames as the whole frame fed to a fresh
\* parser in one call, and leaves the same buffer.
C1_SplitInvariant ==
    (call.op = "split" /\ call.split = 2 /\ call.whole = 1) =>
        /\ call.out_split = call.out_whole
        /\ passcom_parser.frame_buffer = ref_parser.frame_buffer

\* a frame split inside its body has been reassembled into Mode-S frames
C1_Witness ==
    /\ call.op = "split" /\ call.split = 2 /\ call.whole = 1
    /\ 0 < call.k /\ call.k < Len(call.body)
    /\ Len(call.out_whole) >= 2
    /\ call.out_split = call.out_whole
    /\ passcom_parser.frames_processed = 2
    /\ ref_parser.frames_processed = 1

----------------------------------------------------------------------------
(* Properties of GDL90Deframer, checked under SpecGdl.                     *)

\* C4 as stated: for every payload of 14..18 bytes with DF 17, 18 or 19 and
\* every sub-id byte, deframe_message on 0x7E 0x26 sub-id stuff(payload) 0x7E
\* returns the one-element list holding the payload.
C4_DeframeRecoversPayload ==
    call.op = "deframe_frame" => call.result = <<call.payload>>

\* C4 amended: the same for every sub-id byte other than the flag byte 0x7E;
\* the sample 7E26008B9A7D5E479967CCD9C82B84D1FFEBCCA07E deframes to the one
\* payload 8B9A7E479967CCD9C82B84D1FFEBCCA0, whose DF is 17.
C4_DeframeRecoversPayloadUnlessFlagSubId ==
    /\ (call.op = "deframe_frame" /\ call.sub_id # FLAG_BYTE) =>
          /\ Len(call.payload) \in 14..18
          /\ DF(call.payload[1]) \in {17, 18, 19}
          /\ call.result = <<call.payload>>
    /\ (call.op = "deframe_frame" /\ call.raw = Gdl90Sample) =>
          /\ call.result = <<SamplePayload>>
          /\ DF(call.result[1][1]) = 17

\* the sample frame, which holds a stuffed 0x7E, has been deframed
C4_Witness ==
    /\ call.op = "deframe_frame"
    /\ call.raw = Gdl90Sample
    /\ call.result = <<SamplePayload>>
    /\ gdl90_deframer.byte_unstuff_operations >= 1
    /\ gdl90_deframer.adsb_messages_found >= 1

----------------------------------------------------------------------------
(* Properties of ADSBAltitudeDecoder, checked under SpecBaro and SpecAlt.  *)

\* C5: a frame whose 13-bit altitude field has its Q-bit (bit 4 of the
\* field, as the decoder's comment names it) set and carries the 11-bit code
\* N in the other bits decodes, before the offset correction, to N*25 - 1000
\* feet; the field 0x0C38 carries N = 1560 and decodes to 38000 feet.
C5_QBitOneIsTwentyFiveFootArithmetic ==
    call.op = "decode_barometric" =>
        LET f == call.altitude_field
            q == (f \div 16) % 2
            N == (f \div 32) * 16 + (f % 16)
        IN  /\ q = 1 => call.base = N * 25 - 1000
            /\ (q = 1 /\ N = 1560) => call.base = 38000

\* C6: with sanity checks enabled, every altitude in a result of
\* decode_altitude lies in [-1000, 60000] and is the decoded value itself,
\* and a decoded value outside the range gives no result at all.
C6_ReturnedAltitudesInRange ==
    (call.op = "decode_altitude" /\ altitude_decoder.enable_sanity_checks) =>
        LET baro == DecodeBarometricAltitude(call.raw_msg).alt
            geo == DecodeGeometricAltitude(call.raw_msg)
            decoded == [altitude_baro_ft |->
                            IF 9 <= call.type_code /\ call.type_code <= 18
                            THEN baro ELSE {},
                        altitude_geo_ft |->
                            IF call.type_code = 31 THEN geo ELSE {}]
        IN  /\ \A d \in call.result :
                \A k \in {"altitude_baro_ft", "altitude_geo_ft"} \cap DOMAIN d :
                    /\ -1000 <= d[k] /\ d[k] <= 60000
                    /\ d[k] \in decoded[k]
            /\ (\E k \in DOMAIN decoded : \E v \in decoded[k] : v < -1000 \/ v > 60000)
                  => call.result = {}

\* an out-of-range barometric decode has been rejected
C6_Witness ==
    /\ call.op = "decode_altitude"
    /\ altitude_decoder.enable_sanity_checks
    /\ call.type_code \in 9..18
    /\ \E v \in DecodeBarometricAltitude(call.raw_msg).alt : v > 60000
    /\ call.result = {}
    /\ altitude_decoder.sanity_check_failures >= 1

\* C7: with sanity checks enabled, _validate_altitude_data is true exactly
\* when every altitude present is within [-1000, 60000]; two in-range values
\* pass however far apart they are.
C7_ValidateIffAllInRange ==
    (call.op = "validate" /\ altitude_decoder.enable_sanity_checks) =>
        LET present == {"altitude_baro_ft", "altitude_geo_ft"} \cap DOMAIN call.altitude_data
        IN  call.result = (\A k \in present :
                              /\ -1000 <= call.altitude_data[k]
                              /\ call.altitude_data[k] <= 60000)

\* barometric -1000 and geometric 60000, 61000 ft apart, have been accepted
C7_Witness ==
    /\ call.op = "validate"
    /\ altitude_decoder.enable_sanity_checks
    /\ DOMAIN call.altitude_data = {"altitude_baro_ft", "altitude_geo_ft"}
    /\ call.altitude_data["altitude_baro_ft"] = -1000
    /\ call.altitude_data["altitude_geo_ft"] = 60000
    /\ call.result = TRUE

\* C8: with enable_sanity_checks false, _validate_altitude_data is true for
\* every altitude data set, whatever its values.
C8_ValidateTrueWhenDisabled ==
    (call.op = "validate" /\ ~altitude_decoder.enable_sanity_checks) =>
        call.result = TRUE
----------------------------------------------------------------------------
(* C11: every candidate that parse_message hands to _parse_adsb_payload is  *)
(* exactly 14 bytes long, whichever route produced it.                      *)
C11_CandidatesAreFourteenBytes ==
    call.op = "parse_message" =>
        \A i \in 1..Len(call.messages) : Len(call.messages[i]) = 14
----------------------------------------------------------------------------
(* _unstuff_bytes on a fresh deframer, applied to the stuffed form of every *)
(* byte sequence over the flag, the escape, the two escape codes and two    *)
(* ordinary bytes, up to MaxPlainLen bytes long.                            *)

\* the bytes of the plain sequences
PlainBytes == {FLAG_BYTE, ESCAPE_BYTE, ESCAPE_FLAG, ESCAPE_ESC, MSG_ADSB_LONG, 18}

\* the longest enumerated plain sequence
MaxPlainLen == 3

PlainSeqs ==
    UNION { [1..n -> PlainBytes] : n \in 0..MaxPlainLen }
        \cup { <<38, 0, 126, 18>>, <<38, 0, 125, 18>>, <<0>> \o SamplePayload }

InitUnstuff ==
    /\ adsb_parser = AdsbInit
    /\ passcom_parser = PasscomInit
    /\ gdl90_deframer = Gdl90Init
    /\ altitude_decoder = AltitudeInit
    /\ ref_parser = PasscomInit
    /\ call = [op |-> "init", n |-> 0]

\* _unstuff_bytes(frame_data) for frame_data the stuffed form of plain
UnstuffBytesCall(plain) ==
    LET Returned(frame_data, r) ==
            /\ gdl90_deframer' =
                  [gdl90_deframer EXCEPT !.byte_unstuff_operations = @ + r.ops]
            /\ call' = [op |-> "unstuff_bytes", n |-> 1, plain |-> plain,
                        frame_data |-> frame_data, some |-> r.some, result |-> r.data]
        Stuffed(frame_data) == Returned(frame_data, UnstuffBytes(frame_data))
    IN  /\ call.op = "init"
        /\ Stuffed(Stuff(plain))
        /\ UNCHANGED <<adsb_parser, passcom_parser, altitude_decoder, ref_parser>>

NextUnstuff == \E plain \in PlainSeqs : UnstuffBytesCall(plain)

SpecUnstuff == InitUnstuff /\ [][NextUnstuff]_vars

\* C12: _unstuff_bytes inverts the KISS stuffing: for every non-empty byte
\* sequence s, unstuffing the stuffed form of s gives s back; 26 00 7D 5E 12
\* unstuffs to 26 00 7E 12 and 26 00 7D 5D 12 to 26 00 7D 12.
C12_UnstuffInvertsStuff ==
    call.op = "unstuff_bytes" =>
        /\ Len(call.plain) > 0 => call.some /\ call.result = call.plain
        /\ call.frame_data = <<38, 0, 125, 94, 18>> =>
               call.some /\ call.result = <<38, 0, 126, 18>>
        /\ call.frame_data = <<38, 0, 125, 93, 18>> =>
               call.some /\ call.result = <<38, 0, 125, 18>>

\* a sequence holding both the flag and the escape byte came back unchanged
\* after two escapes were resolved, and both examples of the claim were run
C12_Witness ==
    /\ call.op = "unstuff_bytes"
    /\ call.plain = <<FLAG_BYTE, ESCAPE_BYTE, ESCAPE_ESC>>
    /\ call.frame_data = <<ESCAPE_BYTE, ESCAPE_FLAG, ESCAPE_BYTE, ESCAPE_ESC, ESCAPE_ESC>>
    /\ call.result = call.plain
    /\ gdl90_deframer.byte_unstuff_operations = 2
----------------------------------------------------------------------------
(* _convert_gray_to_binary on a fresh decoder, over every value of the      *)
(* 13-bit altitude field.                                                   *)

\* the class table GILLHAM_TO_BINARY: 4-bit Gray code to binary
GILLHAM_TO_BINARY ==
    [g \in 0..15 |-> <<0, 1, 3, 2, 7, 6, 4, 5, 15, 14, 12, 13, 8, 9, 11, 10>>[g + 1]]

\* the largest Gray code converted
MaxGrayCode == 8191

InitGray ==
    /\ adsb_parser = AdsbInit
    /\ passcom_parser = PasscomInit
    /\ gdl90_deframer = Gdl90Init
    /\ altitude_decoder = AltitudeInit
    /\ ref_parser = PasscomInit
    /\ call = [op |-> "init", n |-> 0]

\* _convert_gray_to_binary(gray_code)
ConvertGrayCall(gray_code) ==
    /\ call.op = "init"
    /\ call' = [op |-> "convert_gray_to_binary", n |-> 1, gray_code |-> gray_code,
                result |-> ConvertGrayToBinary(gray_code)]
    /\ UNCHANGED <<adsb_parser, passcom_parser, gdl90_deframer, altitude_decoder,
                   ref_parser>>

NextGray == \E gray_code \in 0..MaxGrayCode : ConvertGrayCall(gray_code)

SpecGray == InitGray /\ [][NextGray]_vars

\* C13: _convert_gray_to_binary is the standard reflected-binary Gray
\* decoding: output bit i is the XOR of the input bits i and above; it
\* returns a value for every non-negative input, maps each k-bit range onto
\* itself one-to-one (the Gray encoding b XOR (b >> 1) of the output is the
\* input), and agrees with the table GILLHAM_TO_BINARY on 0..15.
C13_GrayToBinaryStandard ==
    call.op = "convert_gray_to_binary" =>
        LET g == call.gray_code
            b == call.result
            Bit(x, i) == (x \div (2 ^ i)) % 2
        IN  /\ b \in Nat
            /\ \A i \in 0..14 :
                   Bit(b, i) = Cardinality({j \in i..14 : Bit(g, j) = 1}) % 2
            /\ \A k \in 1..14 : (g < 2 ^ k) <=> (b < 2 ^ k)
            /\ BitXor(b, b \div 2) = g
            /\ g \in DOMAIN GILLHAM_TO_BINARY => b = GILLHAM_TO_BINARY[g]

\* the 13-bit code with only its top bit set decoded to thirteen ones
C13_Witness ==
    /\ call.op = "convert_gray_to_binary"
    /\ call.gray_code = 4096
    /\ call.result = 8191
----------------------------------------------------------------------------
(* Independent instances: one long-lived ADSBParser (the state variables)   *)
(* processes datagrams while two further parsers are constructed, one       *)
(* before and one after, and each is given the same message once.           *)

\* an ADSBParser with its sub-decoders, as one value
ThisInstance ==
    [adsb |-> adsb_parser, passcom |-> passcom_parser, gdl90 |-> gdl90_deframer,
     altitude |-> altitude_decoder]

\* ADSBParser.__init__ sharing the PASSCOM parser of an existing instance
NewADSBParser_SharedPasscom(existing) ==
    [adsb |-> AdsbInit, passcom |-> existing.passcom, gdl90 |-> Gdl90Init,
     altitude |-> AltitudeInit]

\* ADSBParser.__init__ while the instance existing is alive: every field is
\* built anew from the configuration, nothing is taken from existing
NewADSBParser(existing) ==
    [adsb |-> AdsbInit, passcom |-> PasscomInit, gdl90 |-> Gdl90Init,
     altitude |-> AltitudeInit]

\* parse_message(message) on the instance inst, as the returned record
InstanceParse(inst, message, oracle) ==
    LET Returned(r) == [result |-> r.result, raised |-> r.raised, messages |-> r.messages]
    IN  Returned(ParseMessageOp(inst.adsb, inst.passcom, inst.gdl90, inst.altitude,
                                message, oracle))

\* the messages given to the two fresh instances
FreshDatagrams ==
    { <<>>, <<141>>, FrameIdent, FrameBaro, FrameDf11,
      PasscomFrame(FrameIdent),
      PasscomFrame(FrameTc0) \o PasscomFrame(FrameVelocity),
      From(PasscomFrame(FrameIdent), 10),
      Gdl90Sample }

\* what the long-lived instance processes
OtherDatagrams ==
    { FrameBaroHigh, SubSeq(PasscomFrame(FrameIdent), 1, 10),
      PasscomFrame(WrapperText \o BytesHex(FrameBaro)), Gdl90Other, NoneMsg }

FreshOracles == { <<"ok", "ok">>, <<"none", "ok">> }

\* the most parse_message calls made on the long-lived instance
MaxOtherCalls == 2

InitFresh ==
    /\ adsb_parser = AdsbInit
    /\ passcom_parser = PasscomInit
    /\ gdl90_deframer = Gdl90Init
    /\ altitude_decoder = AltitudeInit
    /\ ref_parser = PasscomInit
    /\ call = [op |-> "init", n |-> 0, phase |-> 0]

\* ADSBParser().parse_message(message) on a first fresh instance
FirstInstanceParses(message, oracle) ==
    /\ call.phase = 0
    /\ call' = [op |-> "first", n |-> call.n, phase |-> 1, message |-> message,
                oracle |-> oracle,
                first |-> InstanceParse(NewADSBParser(ThisInstance), message, oracle)]
    /\ UNCHANGED <<adsb_parser, passcom_parser, gdl90_deframer, altitude_decoder,
                   ref_parser>>

\* parse_message(message) on the long-lived instance
OtherInstanceParses(message, oracle) ==
    LET Returned(r) ==
            /\ adsb_parser' = r.parser
            /\ passcom_parser' = r.passcom
            /\ gdl90_deframer' = r.gdl90
            /\ altitude_decoder' = r.altitude
    IN  /\ call.phase < 2
        /\ call.n < MaxOtherCalls
        /\ Returned(ParseMessageOp(adsb_parser, passcom_parser, gdl90_deframer,
                                   altitude_decoder, message, oracle))
        /\ call' = [call EXCEPT !.op = "other", !.n = @ + 1]
        /\ UNCHANGED ref_parser

\* ADSBParser().parse_message(message) on a second fresh instance, with the
\* message the first one was given
SecondInstanceParses ==
    /\ call.phase = 1
    /\ call' = [op |-> "second", n |-> call.n, phase |-> 2, message |-> call.message,
                oracle |-> call.oracle, first |-> call.first,
                second |-> InstanceParse(NewADSBParser(ThisInstance), call.message,
                                         call.oracle)]
    /\ UNCHANGED <<adsb_parser, passcom_parser, gdl90_deframer, altitude_decoder,
                   ref_parser>>

NextFresh ==
    \/ \E message \in FreshDatagrams, oracle \in FreshOracles :
           FirstInstanceParses(message, oracle)
    \/ \E message \in OtherDatagrams, oracle \in FreshOracles :
           OtherInstanceParses(message, oracle)
    \/ SecondInstanceParses

SpecFresh == InitFresh /\ [][NextFresh]_vars

----------------------------------------------------------------------------
\* C15: the statistics counters of the parser and of its three sub-decoders
\* never decrease across a parse_message call, and reset_stats, the only
\* operation that lowers them, sets every one of them to zero.
C15_CountersMonotoneUntilReset ==
    [][LET AdsbCounters == {"parse_error_count", "messages_parsed",
                            "gdl90_messages_processed", "raw_messages_processed",
                            "passcom_messages_processed"}
           PasscomCounters == {"frames_processed", "frames_parsed_successfully",
                               "wrapper_strip_count", "ascii_hex_conversions",
                               "mode_s_frames_extracted", "parse_errors"}
           Gdl90Counters == {"frames_processed", "frames_extracted", "adsb_messages_found",
                             "deframing_errors", "byte_unstuff_operations"}
           AltitudeCounters == {"altitudes_decoded", "barometric_altitudes",
                                "geometric_altitudes", "q_bit_zero_count", "q_bit_one_count",
                                "gillham_conversions", "sanity_check_failures",
                                "decode_errors"}
           NoDecrease ==
               /\ \A f \in AdsbCounters : adsb_parser'[f] >= adsb_parser[f]
               /\ \A f \in PasscomCounters : passcom_parser'[f] >= passcom_parser[f]
               /\ \A f \in Gdl90Counters : gdl90_deframer'[f] >= gdl90_deframer[f]
               /\ \A f \in AltitudeCounters : altitude_decoder'[f] >= altitude_decoder[f]
           AllZero ==
               /\ \A f \in AdsbCounters : adsb_parser'[f] = 0
               /\ \A f \in PasscomCounters : passcom_parser'[f] = 0
               /\ \A f \in Gdl90Counters : gdl90_deframer'[f] = 0
               /\ \A f \in AltitudeCounters : altitude_decoder'[f] = 0
       IN  IF call'.op = "reset_stats" THEN AllZero ELSE NoDecrease]_vars

\* reset_stats has zeroed the counters of a parser that had unstuffed bytes
\* and stored aircraft data, after two parse_message calls
C15_Witness ==
    /\ call.op = "reset_stats"
    /\ call.n = 2
    /\ adsb_parser.messages_parsed = 0
    /\ gdl90_deframer.byte_unstuff_operations = 0
    /\ altitude_decoder.altitudes_decoded = 0
    /\ DOMAIN adsb_parser.aircraft_data # {}
----------------------------------------------------------------------------
(* The running application in the protocol modes that feed the ADS-B        *)
(* parser: the listener thread (UDPListener._listen_loop calling            *)
(* _handle_udp_data, _handle_adsb_data and parse_message) and the display   *)
(* thread (NavigationListener._display_loop) share one ADSBParser.  No      *)
(* lock exists in either file.  parse_message is taken in two steps, before *)
(* and after its for loop; get_stats in two steps, after reading the        *)
(* sub-decoder statistics and after reading the parser's own.               *)

\* the values of config.PROTOCOL_MODE under which datagrams reach the parser
AdsbProtocolModes == {"adsb", "auto"}

\* b"$GP": text that the auto mode takes for NMEA
NmeaText == <<36, 71, 80>>

ThreadDatagrams == { FrameBaro, PasscomFrame(FrameIdent), Gdl90Escaped, NmeaText }

\* the most datagrams the listener thread receives
MaxPackets == 2

\* whether _listen_loop and _handle_udp_data pass data to _handle_adsb_data
RoutesToAdsb(mode, data) ==
    \/ mode = "adsb" /\ Len(data) > 0
    \/ mode = "auto" /\ ~(data[1] = 36 /\ \A i \in 1..Len(data) : data[i] < 128)
                     /\ Slice(data, 0, 4) # <<170, 68, 18, 28>>

InitThreads ==
    /\ adsb_parser = AdsbInit
    /\ passcom_parser = PasscomInit
    /\ gdl90_deframer = Gdl90Init
    /\ altitude_decoder = AltitudeInit
    /\ ref_parser = PasscomInit
    /\ \E mode \in AdsbProtocolModes :
           call = [op |-> "init", n |-> 0, mode |-> mode, listener |-> "recvfrom",
                   display |-> "sleep", processed_messages |-> <<>>,
                   nav_data |-> EmptyDict, sub_stats |-> EmptyDict, stats |-> EmptyDict]

\* listener thread: recvfrom returns data, the callback enters parse_message,
\* which runs _preprocess_message
ListenerReceives(data) ==
    LET Preprocessed(pre) ==
            /\ adsb_parser' = pre.parser
            /\ passcom_parser' = pre.passcom
            /\ gdl90_deframer' = pre.gdl90
            /\ call' = [call EXCEPT !.op = "listener_receives", !.n = @ + 1,
                                    !.listener = "for_loop",
                                    !.processed_messages = pre.messages]
    IN  /\ call.listener = "recvfrom"
        /\ call.n < MaxPackets
        /\ RoutesToAdsb(call.mode, data)
        /\ Preprocessed(PreprocessMessage(adsb_parser, passcom_parser, gdl90_deframer,
                                          data))
        /\ UNCHANGED <<altitude_decoder, ref_parser>>

\* listener thread: recvfrom returns text that goes to the NMEA handler
ListenerReceivesOther(data) ==
    /\ call.listener = "recvfrom"
    /\ call.n < MaxPackets
    /\ ~RoutesToAdsb(call.mode, data)
    /\ call' = [call EXCEPT !.op = "listener_receives_other", !.n = @ + 1]
    /\ UNCHANGED <<adsb_parser, passcom_parser, gdl90_deframer, altitude_decoder,
                   ref_parser>>

\* listener thread: the for loop of parse_message, its except clause and the
\* return to recvfrom
ListenerParsesPayloads ==
    LET Parsed(r) ==
            /\ adsb_parser' = IF r.raised
                              THEN [r.parser EXCEPT !.parse_error_count = @ + 1]
                              ELSE r.parser
            /\ altitude_decoder' = r.altitude
    IN  /\ call.listener = "for_loop"
        /\ Parsed(ParseCandidates(adsb_parser, altitude_decoder, call.processed_messages,
                                  1, <<>>))
        /\ call' = [call EXCEPT !.op = "listener_parses", !.listener = "recvfrom",
                                !.processed_messages = <<>>]
        /\ UNCHANGED <<passcom_parser, gdl90_deframer, ref_parser>>

\* display thread: get_latest_aviation_data()
DisplayGetsLatest ==
    /\ call.display = "sleep"
    /\ call' = [call EXCEPT !.op = "display_gets_latest", !.display = "get_stats",
                            !.nav_data = adsb_parser.last_valid_data]
    /\ UNCHANGED <<adsb_parser, passcom_parser, gdl90_deframer, altitude_decoder,
                   ref_parser>>

\* display thread: get_stats() reads gdl90_deframer.get_stats() and
\* altitude_decoder.get_stats()
DisplayReadsSubStats ==
    /\ call.display = "get_stats"
    /\ call' = [call EXCEPT
                  !.op = "display_reads_sub_stats", !.display = "in_get_stats",
                  !.sub_stats =
                      [k \in {"gdl90_frames_processed", "gdl90_adsb_found",
                              "altitudes_decoded", "barometric_altitudes",
                              "geometric_altitudes", "altitude_sanity_failures"} |->
                         CASE k = "gdl90_frames_processed" -> gdl90_deframer.frames_processed
                           [] k = "gdl90_adsb_found" -> gdl90_deframer.adsb_messages_found
                           [] k = "altitudes_decoded" -> altitude_decoder.altitudes_decoded
                           [] k = "barometric_altitudes" ->
                                  altitude_decoder.barometric_altitudes
                           [] k = "geometric_altitudes" ->
                                  altitude_decoder.geometric_altitudes
                           [] OTHER -> altitude_decoder.sanity_check_failures]]
    /\ UNCHANGED <<adsb_parser, passcom_parser, gdl90_deframer, altitude_decoder,
                   ref_parser>>

\* display thread: get_stats() reads the parser's own counters and the
\* PASSCOM statistics, returns, and the loop displays and sleeps (the
\* success rates are left out)
DisplayBuildsStats ==
    /\ call.display = "in_get_stats"
    /\ call' = [call EXCEPT
                  !.op = "display_builds_stats", !.display = "sleep",
                  !.sub_stats = EmptyDict,
                  !.stats = DictUpdate(call.sub_stats,
                      [k \in {"messages_parsed", "parse_errors", "aircraft_tracked",
                              "gdl90_messages_processed", "raw_messages_processed",
                              "passcom_messages_processed", "passcom_frames_processed",
                              "passcom_mode_s_frames", "passcom_ascii_hex_conversions"} |->
                         CASE k = "messages_parsed" -> adsb_parser.messages_parsed
                           [] k = "parse_errors" -> adsb_parser.parse_error_count
                           [] k = "aircraft_tracked" ->
                                  Cardinality(DOMAIN adsb_parser.aircraft_data)
                           [] k = "gdl90_messages_processed" ->
                                  adsb_parser.gdl90_messages_processed
                           [] k = "raw_messages_processed" ->
                                  adsb_parser.raw_messages_processed
                           [] k = "passcom_messages_processed" ->
                                  adsb_parser.passcom_messages_processed
                           [] k = "passcom_frames_processed" ->
                                  passcom_parser.frames_processed
                           [] k = "passcom_mode_s_frames" ->
                                  passcom_parser.mode_s_frames_extracted
                           [] OTHER -> passcom_parser.ascii_hex_conversions])]
    /\ UNCHANGED <<adsb_parser, passcom_parser, gdl90_deframer, altitude_decoder,
                   ref_parser>>

NextThreads ==
    \/ \E data \in ThreadDatagrams : ListenerReceives(data)
    \/ \E data \in ThreadDatagrams : ListenerReceivesOther(data)
    \/ ListenerParsesPayloads
    \/ DisplayGetsLatest
    \/ DisplayReadsSubStats
    \/ DisplayBuildsStats

SpecThreads == InitThreads /\ [][NextThreads]_vars

\* C16: the display thread is never inside get_stats or between
\* get_latest_aviation_data and get_stats while the listener thread is
\* inside parse_message: the reads and the writes of the parser's counters
\* and tables never overlap.
C16_NoReadDuringParseMessage ==
    ~(call.listener = "for_loop" /\ call.display \in {"get_stats", "in_get_stats"})
----------------------------------------------------------------------------
\* C17: aircraft_data is last-value-wins accumulation: a parse_message call
\* that returns a record sets every field of the record in the entry of the
\* record's ICAO address, keeps the entry's other fields as they were and
\* leaves the entries of all other addresses untouched; a call that returns
\* None changes nothing in aircraft_data.
C17_LastValueWins ==
    [][call'.op = "parse_message" =>
         LET old == adsb_parser.aircraft_data
             new == adsb_parser'.aircraft_data
         IN  IF call'.result = {}
             THEN new = old
             ELSE LET d == CHOOSE x \in call'.result : TRUE
                      before == IF d.icao \in DOMAIN old THEN old[d.icao] ELSE EmptyDict
                  IN  /\ DOMAIN new = DOMAIN old \cup {d.icao}
                      /\ \A i \in DOMAIN old : i # d.icao => new[i] = old[i]
                      /\ DOMAIN new[d.icao] = DOMAIN before \cup DOMAIN d
                      /\ \A f \in DOMAIN d : new[d.icao][f] = d[f]
                      /\ \A f \in DOMAIN before \ DOMAIN d :
                             new[d.icao][f] = before[f]]_vars

\* after an identification message and a position message of the same
\* aircraft its entry holds the callsign of the first and the altitude and
\* type code of the second
C17_Witness ==
    /\ call.op = "parse_message"
    /\ call.n = 2
    /\ call.message = FrameBaro
    /\ call.result # {}
    /\ \E i \in DOMAIN adsb_parser.aircraft_data :
           /\ {"callsign", "altitude_baro_ft"} \subseteq DOMAIN adsb_parser.aircraft_data[i]
           /\ adsb_parser.aircraft_data[i]["callsign"] = BytesHex(FrameIdent)
           /\ adsb_parser.aircraft_data[i]["type_code"] = 11
----------------------------------------------------------------------------
(* The PASSCOM parser alone: parse_passcom_frame calls on one               *)
(* NovAtelPasscomParser, fed datagram after datagram.  The call record      *)
(* keeps the datagrams fed so far and all Mode-S frames returned so far.    *)

\* b"A" * 101
LongGarbage == [i \in 1..101 |-> 65]

\* a header whose length field says 40 with 4 bytes of body, b"data", behind
CorruptHeader == FRAME_START_MARKER \o <<0, 40>> \o <<100, 97, 116, 97>>

\* b"\x7e\x26\xFF\xFF" + b"data"
CorruptHeaderMax == FRAME_START_MARKER \o <<255, 255>> \o <<100, 97, 116, 97>>

PasscomFeeds ==
    { <<>>, Garbage, LongGarbage,
      PasscomFrame(<<>>),
      PasscomFrame(<<>>) \o PasscomFrame(FrameIdent),
      PasscomFrame(<<>>) \o LongGarbage,
      PasscomFrame(FrameIdent), PasscomFrame(FrameVelocity),
      SubSeq(PasscomFrame(FrameIdent), 1, 10),
      CorruptHeader, CorruptHeaderMax }

\* the most parse_passcom_frame calls made on the parser
MaxFeeds == 3

InitPasscom ==
    /\ adsb_parser = AdsbInit
    /\ passcom_parser = PasscomInit
    /\ gdl90_deframer = Gdl90Init
    /\ altitude_decoder = AltitudeInit
    /\ ref_parser = PasscomInit
    /\ call = [op |-> "init", n |-> 0, raw_data |-> <<>>, frames |-> <<>>,
               fed |-> <<>>, returned |-> <<>>]

\* parse_passcom_frame(raw_data)
ParsePasscomCall(raw_data) ==
    LET Returned(r) ==
            /\ passcom_parser' = r.parser
            /\ call' = [op |-> "parse_passcom_frame", n |-> call.n + 1,
                        raw_data |-> raw_data, frames |-> r.frames,
                        fed |-> Append(call.fed, raw_data),
                        returned |-> call.returned \o r.frames]
    IN  /\ call.n < MaxFeeds
        /\ Returned(ParsePasscomFrame(passcom_parser, raw_data))
        /\ UNCHANGED <<adsb_parser, gdl90_deframer, altitude_decoder, ref_parser>>

NextPasscom == \E raw_data \in PasscomFeeds : ParsePasscomCall(raw_data)

SpecPasscom == InitPasscom /\ [][NextPasscom]_vars

\* C18: whenever parse_passcom_frame returns, the buffer holds no complete
\* frame: it has no marker, or fewer than 4 bytes from the first marker on,
\* or fewer than 4 + declared length bytes from there, a declared length of
\* 0 included.
C18_NoCompleteFrameLeft ==
    call.op = "parse_passcom_frame" =>
        LET buf == passcom_parser.frame_buffer
            pos == Find(buf, FRAME_START_MARKER)
            avail == Len(buf) - pos
        IN  \/ pos = -1
            \/ avail < 4
            \/ avail < 4 + buf[pos + 3] * 256 + buf[pos + 4]

\* C19: after every parse_passcom_frame call the buffer is bounded: at most
\* 100 bytes when it holds no marker, and otherwise it starts at a marker
\* and is shorter than 4 + 65535 bytes.
C19_BufferBounded ==
    call.op = "parse_passcom_frame" =>
        LET buf == passcom_parser.frame_buffer
            pos == Find(buf, FRAME_START_MARKER)
        IN  IF pos = -1 THEN Len(buf) <= 100
            ELSE pos = 0 /\ Len(buf) < 4 + 65535

\* C20: a well-formed complete frame appended behind a corrupt header (a
\* marker with a too large length field) is extracted and its Mode-S frame
\* returned: once the bytes of that frame have left the buffer, its Mode-S
\* frame is among the frames returned so far.
C20_FrameBehindCorruptHeaderReturned ==
    ( /\ call.op = "parse_passcom_frame"
      /\ Len(call.fed) >= 2
      /\ call.fed[1] \in {CorruptHeader, CorruptHeaderMax}
      /\ call.fed[2] = PasscomFrame(FrameIdent)
      /\ Find(passcom_parser.frame_buffer, FrameIdent) = -1 )
    => \E i \in 1..Len(call.returned) : call.returned[i] = FrameIdent
----------------------------------------------------------------------------
\* C21: a PASSCOM frame split over two consecutive parse_message datagrams
\* is reassembled: the second datagram (the remaining body bytes) takes the
\* PASSCOM route, is appended to the buffer, and the Mode-S frame of the
\* completed frame is the candidate list of the second call.
C21_SplitFrameReassembledByParseMessage ==
    [][( /\ call.op = "parse_message"
         /\ call.message = PartialHead
         /\ passcom_parser.frame_buffer = PartialHead
         /\ call'.op = "parse_message"
         /\ call'.message = PartialTail )
       => ( /\ call'.route = "passcom"
            /\ call'.messages = <<FrameIdent>>
            /\ passcom_parser'.frame_buffer = <<>> )]_vars
-----------------------------------------------------------------------------
(* _extract_mode_s_frames called directly on a fresh parser, over binary    *)
(* data made of up to MaxModeSFrames 14-byte blocks and a short tail.       *)

\* the largest number of 14-byte blocks in the binary data
MaxModeSFrames == 3

\* the blocks with the leading bytes ls, each followed by 13 bytes that name
\* the block and the position, and then t more bytes 0x8D
ModeSData(ls, t) ==
    [p \in 1..(14 * Len(ls) + t) |->
        IF p > 14 * Len(ls) THEN 141
        ELSE IF (p - 1) % 14 = 0 THEN ls[(p - 1) \div 14 + 1]
        ELSE 16 * ((p - 1) \div 14 + 1) + ((p - 1) % 14)]

\* _extract_mode_s_frames(binary_data), which also counts the frames it emits
ExtractModeSFramesCall(ls, t) ==
    LET Returned(binary_data, frames) ==
            /\ passcom_parser' =
                  [passcom_parser EXCEPT !.mode_s_frames_extracted = @ + Len(frames)]
            /\ call' = [op |-> "extract_mode_s_frames", n |-> 1, leads |-> ls,
                        tail |-> t, binary_data |-> binary_data, frames |-> frames]
        Called(binary_data) == Returned(binary_data, ExtractModeSFrames(binary_data))
    IN  /\ call.op = "init"
        /\ Called(ModeSData(ls, t))
        /\ UNCHANGED <<adsb_parser, gdl90_deframer, altitude_decoder, ref_parser>>

\* the blocks lead with DF 17, 18, 20, 24, 31 or 11; the tail has 0, 1 or 13
\* bytes
NextModeS ==
    \E ls \in UNION {[1..k -> {141, 144, 160, 192, 255, 93}] : k \in 0..MaxModeSFrames} :
        \E t \in {0, 1, 13} : ExtractModeSFramesCall(ls, t)

SpecModeS == InitPasscom /\ [][NextModeS]_vars

\* C22: binary data made of k >= 1 concatenated 14-byte frames, each with
\* leading DF 17, is segmented by _extract_mode_s_frames into exactly k frames
\* of 14 bytes each, in input order.
C22_BackToBackSquittersSeparated ==
    ( /\ call.op = "extract_mode_s_frames"
      /\ Len(call.leads) >= 1
      /\ call.tail = 0
      /\ \A i \in 1..Len(call.leads) : DF(call.leads[i]) = 17 )
    => ( /\ Len(call.frames) = Len(call.leads)
         /\ \A i \in 1..Len(call.frames) :
               call.frames[i] = Slice(call.binary_data, 14 * (i - 1), 14 * i) )

\* C23: a 14-byte candidate whose leading byte is 0xFF (DF 31) is not
\* emitted: _extract_mode_s_frames returns the empty list for it and
\* mode_s_frames_extracted stays as it was.
C23_InvalidDownlinkFormatRejected ==
    ( /\ call.op = "extract_mode_s_frames"
      /\ call.leads = <<255>>
      /\ call.tail = 0 )
    => ( /\ call.frames = <<>>
         /\ passcom_parser.mode_s_frames_extracted = 0 )

-----------------------------------------------------------------------------
(* Further properties of _decode_barometric_altitude, checked under         *)
(* SpecBaro.                                                                *)

\* C25: in the Q-bit = 1 branch of _decode_barometric_altitude the bit that
\* was tested as the Q-bit is the bit that is dropped when the altitude code
\* is reassembled: the branch is taken exactly when the dropped bit (bit 4 of
\* the 13-bit field) is set, and the code is the other twelve bits in order.
C25_TestedQBitIsDroppedBit ==
    call.op = "decode_barometric" =>
        LET f == call.altitude_field
            dropped == (f \div 16) % 2
            remaining == (f \div 32) * 16 + (f % 16)
        IN  /\ altitude_decoder.q_bit_one_count = 1 <=> dropped = 1
            /\ altitude_decoder.q_bit_one_count = 1 =>
                   call.base = remaining * 25 - 1000
-----------------------------------------------------------------------------
(* decode_altitude on a fresh decoder with the default configuration, over  *)
(* every value of bytes 2..4 that the two decoders look at, for a           *)
(* barometric and the geometric type code, on frames of 14 and 13 bytes.    *)

\* frame lengths of the calls: the 13-byte frames are those with byte 3 = 0
\* (a short frame is turned away before its bytes are looked at)
FieldFrameLens(b3) == IF b3 = 0 THEN {13, 14} ELSE {14}

\* decode_altitude(raw_msg, type_code) for the frame with bytes b2, b3, b4 cut
\* to len bytes; baro and geo are what the two inner decoders return for it
DecodeFieldCall(b2, b3, b4, len, type_code) ==
    LET Returned(msg, raw_msg, r) ==
            /\ altitude_decoder' = r.decoder
            /\ call' = [op |-> "decode_altitude", n |-> 1, msg |-> msg,
                        type_code |-> type_code,
                        baro |-> DecodeBarometricAltitude(raw_msg).alt,
                        geo |-> DecodeGeometricAltitude(raw_msg),
                        result |-> r.result]
        Hexed(msg, raw_msg) ==
            Returned(msg, raw_msg, DecodeAltitude(altitude_decoder, raw_msg, type_code))
        Built(msg) == Hexed(msg, BytesHex(msg))
    IN  /\ call.op = "init"
        /\ Built(SubSeq(MkFrame(141, b2, b3, b4), 1, len))
        /\ UNCHANGED <<adsb_parser, passcom_parser, gdl90_deframer, ref_parser>>

\* the type codes are 11 (airborne position, barometric) and 31
NextField ==
    \E b2 \in {64, 65}, b3 \in 0..255, nib \in 0..15 :
        \E len \in FieldFrameLens(b3), type_code \in {11, 31} :
            DecodeFieldCall(b2, b3, nib * 16 + 8, len, type_code)

SpecField == InitBaro /\ [][NextField]_vars

C27_GeometricTruncatesAndStaysInRange ==
    (call.op = "decode_altitude" /\ call.type_code = 31) =>
        LET m == call.msg
            code == ((m[3] * 65536 + m[4] * 256 + m[5]) \div 32) % 4096
            num == code * 25 - 4000
            IsTrunc(t) == IF num >= 0 THEN 4 * t <= num /\ num < 4 * t + 4
                          ELSE 4 * t - 4 < num /\ num <= 4 * t
        IN  IF Len(m) >= 14
            THEN /\ call.geo # {}
                 /\ \A t \in call.geo : IsTrunc(t) /\ -1000 <= t /\ t <= 24593
                 /\ \E d \in call.result : {d["altitude_geo_ft"]} = call.geo
                 /\ altitude_decoder.sanity_check_failures = 0
                 /\ altitude_decoder.geometric_altitudes = 1
            ELSE /\ call.geo = {}
                 /\ call.result = {}
                 /\ altitude_decoder.geometric_altitudes = 0

\* the largest code 4095 decodes to 24593 (24593.75 truncated), the code 159
\* to -6 (-6.25 truncated toward zero), both accepted
C27_Witness ==
    /\ call.op = "decode_altitude"
    /\ call.type_code = 31
    /\ Len(call.msg) = 14
    /\ call.geo \in {{24593}, {-6}}
    /\ \E d \in call.result : d["altitude_geo_ft"] \in {24593, -6}
    /\ altitude_decoder.altitudes_decoded = 1
-----------------------------------------------------------------------------
(* deframe_message on a fresh deframer, over datagrams that hold up to      *)
(* MaxStreamFrames flag-delimited frames, valid and invalid ones mixed.     *)

\* the largest number of frames in one datagram
MaxStreamFrames == 3

\* frame contents (between the flags, stuffed): a DF 17 report, the sample
\* report with an escaped flag, a DF 18 report, a message of another type, a
\* report with 13, with 19 payload bytes, with DF 11, a report cut after an
\* escape byte, and a single byte
StreamContents ==
    { <<MSG_ADSB_LONG, 0>> \o Stuff(FrameIdent),
      <<MSG_ADSB_LONG, 0>> \o Stuff(SamplePayload),
      <<MSG_ADSB_LONG, 0>> \o MkFrame(144, 64, 214, 32),
      <<0, 129, 65, 219, 208, 8, 2, 179, 139>>,
      <<MSG_ADSB_LONG, 0>> \o SubSeq(FrameIdent, 1, 13),
      <<MSG_ADSB_LONG, 0>> \o FrameIdent \o <<1, 2, 3, 4, 5>>,
      <<MSG_ADSB_LONG, 0>> \o FrameDf11,
      <<MSG_ADSB_LONG, 0, ESCAPE_BYTE>>,
      <<MSG_ADSB_LONG>> }

RECURSIVE StreamData(_, _)
\* the frames with the contents cs one after the other, each between its own
\* two flags, or each closing flag shared with the next frame
StreamData(cs, shared) ==
    IF Len(cs) = 0 THEN <<>>
    ELSE IF Len(cs) = 1 THEN <<FLAG_BYTE>> \o cs[1] \o <<FLAG_BYTE>>
    ELSE <<FLAG_BYTE>> \o cs[1]
         \o (IF shared THEN <<>> ELSE <<FLAG_BYTE>>) \o StreamData(Tail(cs), shared)

\* deframe_message(raw_data) for the datagram with the frame contents cs
DeframeStreamCall(cs, shared) ==
    LET Returned(raw_data, r) ==
            /\ gdl90_deframer' = r.deframer
            /\ call' = [op |-> "deframe_message", n |-> 1, contents |-> cs,
                        raw_data |-> raw_data, messages |-> r.messages]
        Called(raw_data) == Returned(raw_data, DeframeMessage(gdl90_deframer, raw_data))
    IN  /\ call.op = "init"
        /\ Called(StreamData(cs, shared))
        /\ UNCHANGED <<adsb_parser, passcom_parser, altitude_decoder, ref_parser>>

NextStream ==
    \E cs \in UNION {[1..k -> StreamContents] : k \in 0..MaxStreamFrames} :
        \E shared \in BOOLEAN : DeframeStreamCall(cs, shared)

SpecStream == InitUnstuff /\ [][NextStream]_vars

\* C28: the payloads deframe_message returns are, in input order, exactly the
\* payloads of the flag-delimited frames of the datagram whose unstuffed
\* content starts with the message id 0x26, has 14 to 18 bytes after the
\* 2-byte header and a leading DF of 17, 18 or 19; every other frame is
\* skipped without an error being counted and without keeping a later frame
\* from being extracted.
C28_PayloadsAreTheValidFrames ==
    call.op = "deframe_message" =>
        LET raw == call.raw_data
            Flags == {i \in 1..Len(raw) : raw[i] = 126}
            Delimited == {f \in Flags \X Flags :
                            /\ f[1] + 1 < f[2]
                            /\ \A i \in Flags : ~(f[1] < i /\ i < f[2])}
            Content(f) == UnstuffBytes(SubSeq(raw, f[1] + 1, f[2] - 1)).data
            IsValid(u) ==
                /\ Len(u) >= 2 + 14
                /\ Len(u) <= 2 + 18
                /\ u[1] = 38
                /\ (u[3] \div 8) % 32 \in {17, 18, 19}
            Valid == {f \in Delimited : IsValid(Content(f))}
            Rank(f) == 1 + Cardinality({g \in Valid : g[1] < f[1]})
        IN  /\ Len(call.messages) = Cardinality(Valid)
            /\ \A f \in Valid : call.messages[Rank(f)] = From(Content(f), 2)
            /\ gdl90_deframer.deframing_errors = 0
            /\ gdl90_deframer.adsb_messages_found = Cardinality(Valid)

\* a report with 19 payload bytes and a report cut after an escape byte are
\* skipped, and the sample report behind them, which shares its opening flag
\* with the frame before it, is returned with its escaped flag restored
C28_Witness ==
    /\ call.op = "deframe_message"
    /\ Len(call.contents) = 3
    /\ call.contents[1] = <<MSG_ADSB_LONG, 0>> \o FrameIdent \o <<1, 2, 3, 4, 5>>
    /\ call.contents[2] = <<MSG_ADSB_LONG, 0, ESCAPE_BYTE>>
    /\ call.raw_data = StreamData(call.contents, TRUE)
    /\ call.messages = <<SamplePayload>>
    /\ gdl90_deframer.frames_processed = 3
    /\ gdl90_deframer.byte_unstuff_operations = 1
-----------------------------------------------------------------------------
(* Accounting of the altitude decoder's counters, checked under SpecAlt.    *)

\* C30: with sanity checks enabled, after any sequence of decode_altitude and
\* reset_stats calls barometric_altitudes + geometric_altitudes equals
\* altitudes_decoded + sanity_check_failures: a decode_altitude call that
\* produced an altitude value is counted once, as accepted when it returns
\* the value and as rejected when validation turns it into None, and
\* sanity_check_failures grows by exactly 1 on each rejected decode and not
\* otherwise.
C30_AltitudeAccounting ==
    [][LET a == altitude_decoder
           b == altitude_decoder'
           produced == (b.barometric_altitudes + b.geometric_altitudes)
                       - (a.barometric_altitudes + a.geometric_altitudes)
           rejected == produced = 1 /\ call'.result = {}
           accepted == produced = 1 /\ call'.result # {}
       IN  b.enable_sanity_checks =>
             /\ b.barometric_altitudes + b.geometric_altitudes
                  = b.altitudes_decoded + b.sanity_check_failures
             /\ (call'.op = "decode_altitude" /\ call'.n = call.n + 1) =>
                  /\ produced \in {0, 1}
                  /\ b.sanity_check_failures - a.sanity_check_failures
                       = (IF rejected THEN 1 ELSE 0)
                  /\ b.altitudes_decoded - a.altitudes_decoded
                       = (IF accepted THEN 1 ELSE 0)]_vars

\* one barometric decode above the range was rejected and one geometric
\* decode was accepted
C30_Witness ==
    /\ call.op = "decode_altitude"
    /\ call.type_code = 31
    /\ call.result # {}
    /\ altitude_decoder.enable_sanity_checks
    /\ altitude_decoder.barometric_altitudes = 1
    /\ altitude_decoder.geometric_altitudes = 1
    /\ altitude_decoder.altitudes_decoded = 1
    /\ altitude_decoder.sanity_check_failures = 1
-----------------------------------------------------------------------------
(* The loops of the pipeline, one iteration per step: the while True loop   *)
(* of parse_passcom_frame, the while loop of _extract_mode_s_frames, the    *)
(* while loop of _unstuff_bytes and the for loop of deframe_message.  The   *)
(* loop variables of the running call are kept in call; call.pc is "loop"   *)
(* while the call runs and "returned" after it.                             *)

\* the largest number of calls in one behaviour
MaxLoopCalls == 2

\* the largest number of 14-byte blocks given to _extract_mode_s_frames
MaxLoopBlocks == 2

\* the largest number of bytes given to _unstuff_bytes
MaxLoopLen == 2

\* one iteration of the while True loop of parse_passcom_frame: x is what
\* _extract_next_frame returned and left in the buffer, r what
\* _process_frame_data makes of the frame body (used when the body is not
\* empty); done when the loop is left by its break
PasscomDrainStep(p, extracted, x, r) ==
    IF ~x.some \/ Len(x.data) = 0
    THEN [done |-> TRUE,
          parser |-> [p EXCEPT !.frame_buffer = x.buf,
                               !.frames_parsed_successfully =
                                   @ + (IF Len(extracted) > 0 THEN 1 ELSE 0)],
          frames |-> extracted]
    ELSE [done |-> FALSE,
          parser |-> [p EXCEPT !.frame_buffer = x.buf,
                               !.wrapper_strip_count = @ + r.wrapper,
                               !.ascii_hex_conversions = @ + r.hex,
                               !.mode_s_frames_extracted = @ + r.modes],
          frames |-> extracted \o r.frames]

\* one iteration of the while loop of _extract_mode_s_frames at 0-based
\* offset: done when the loop condition fails or a break is taken
ExtractModeSFramesStep(binary_data, offset, frames) ==
    LET n == Len(binary_data)
        df == DF(binary_data[offset + 1])
        want == ModeSFrameLength(df)
        frame_length == IF offset + want > n /\ want = 28 /\ offset + 14 <= n
                        THEN 14 ELSE want
        frame == Slice(binary_data, offset, offset + frame_length)
        frame_df == DF(frame[1])
    IN  IF offset >= n \/ offset + 1 >= n
        THEN [done |-> TRUE, offset |-> offset, frames |-> frames]
        ELSE IF offset + frame_length > n
        THEN [done |-> TRUE, offset |-> offset, frames |-> frames]
        ELSE [done |-> FALSE, offset |-> offset + frame_length,
              frames |-> IF 0 <= frame_df /\ frame_df <= 31
                         THEN Append(frames, frame) ELSE frames]

\* a scan that does not move past an escape byte followed by another byte
UnstuffBytesStep_StuckOnInvalidEscape(frame_data, i, unstuffed, ops) ==
    IF i >= Len(frame_data)
    THEN [done |-> TRUE, i |-> i, unstuffed |-> unstuffed, ops |-> ops]
    ELSE IF frame_data[i + 1] = ESCAPE_BYTE /\ i + 1 < Len(frame_data)
    THEN IF frame_data[i + 2] = ESCAPE_FLAG
         THEN [done |-> FALSE, i |-> i + 2,
               unstuffed |-> Append(unstuffed, FLAG_BYTE), ops |-> ops + 1]
         ELSE IF frame_data[i + 2] = ESCAPE_ESC
         THEN [done |-> FALSE, i |-> i + 2,
               unstuffed |-> Append(unstuffed, ESCAPE_BYTE), ops |-> ops + 1]
         ELSE [done |-> FALSE, i |-> i,
               unstuffed |-> Append(unstuffed, frame_data[i + 1]), ops |-> ops]
    ELSE [done |-> FALSE, i |-> i + 1,
          unstuffed |-> Append(unstuffed, frame_data[i + 1]), ops |-> ops]

\* one step of the while loop of _unstuff_bytes at 0-based index i: done when
\* the loop condition fails
UnstuffBytesStep(frame_data, i, unstuffed, ops) ==
    IF i >= Len(frame_data)
    THEN [done |-> TRUE, i |-> i, unstuffed |-> unstuffed, ops |-> ops]
    ELSE IF frame_data[i + 1] = ESCAPE_BYTE /\ i + 1 < Len(frame_data)
    THEN IF frame_data[i + 2] = ESCAPE_FLAG
         THEN [done |-> FALSE, i |-> i + 2,
               unstuffed |-> Append(unstuffed, FLAG_BYTE), ops |-> ops + 1]
         ELSE IF frame_data[i + 2] = ESCAPE_ESC
         THEN [done |-> FALSE, i |-> i + 2,
               unstuffed |-> Append(unstuffed, ESCAPE_BYTE), ops |-> ops + 1]
         ELSE [done |-> FALSE, i |-> i + 1,
               unstuffed |-> Append(unstuffed, frame_data[i + 1]), ops |-> ops]
    ELSE [done |-> FALSE, i |-> i + 1,
          unstuffed |-> Append(unstuffed, frame_data[i + 1]), ops |-> ops]

\* one iteration of the for loop of deframe_message over frame_boundaries, at
\* the k-th boundary: done when the boundaries are used up
DeframeFramesStep(g, raw_data, boundaries, k, adsb_messages) ==
    LET Payload(u, pl) ==
            [done |-> FALSE, k |-> k + 1,
             deframer |-> [g EXCEPT !.frames_processed = @ + 1,
                                    !.byte_unstuff_operations = @ + u.ops,
                                    !.adsb_messages_found =
                                        @ + (IF ~u.some \/ Len(u.data) = 0 \/ pl = {}
                                             THEN 0 ELSE 1)],
             messages |-> IF ~u.some \/ Len(u.data) = 0 \/ pl = {}
                          THEN adsb_messages
                          ELSE Append(adsb_messages, CHOOSE x \in pl : TRUE)]
        Unstuffed(u) == Payload(u, ExtractAdsbPayload(u.data))
    IN  IF k > Len(boundaries)
        THEN [done |-> TRUE, k |-> k,
              deframer |-> [g EXCEPT !.frames_extracted = @ + Len(adsb_messages)],
              messages |-> adsb_messages]
        ELSE Unstuffed(UnstuffBytes(Slice(raw_data, boundaries[k][1] + 1,
                                                    boundaries[k][2])))

\* datagrams fed to parse_passcom_frame
LoopFeeds ==
    { <<>>, Garbage, LongGarbage, PartialHead, PartialTail, CorruptHeaderMax,
      PasscomFrame(FrameIdent),
      PasscomFrame(<<>>) \o PasscomFrame(FrameIdent),
      PasscomFrame(FrameIdent) \o PasscomFrame(FrameVelocity) }

\* binary data given to _extract_mode_s_frames: blocks with leading DF 17, 20
\* or 31, with and without a 13-byte tail
LoopModeSData ==
    { ModeSData(ls, t) :
        ls \in UNION {[1..k -> {141, 160, 255}] : k \in 0..MaxLoopBlocks},
        t \in {0, 13} }

\* frame contents given to _unstuff_bytes: every sequence of up to
\* MaxLoopLen of the bytes 7D, 5E, 5D, 26
LoopFrameData ==
    UNION {[1..k -> {ESCAPE_BYTE, ESCAPE_FLAG, ESCAPE_ESC, 38}] : k \in 0..MaxLoopLen}

\* datagrams given to deframe_message: up to two frames
LoopStreams ==
    { StreamData(cs, shared) :
        cs \in UNION {[1..k -> { <<MSG_ADSB_LONG, 0>> \o Stuff(SamplePayload),
                                 <<0, 129, 65, 219, 208, 8, 2, 179, 139>>,
                                 <<MSG_ADSB_LONG, 0, ESCAPE_BYTE>> }] : k \in 0..2},
        shared \in BOOLEAN }

InitLoops ==
    /\ adsb_parser = AdsbInit
    /\ passcom_parser = PasscomInit
    /\ gdl90_deframer = Gdl90Init
    /\ altitude_decoder = AltitudeInit
    /\ ref_parser = PasscomInit
    /\ call = [op |-> "init", pc |-> "idle", n |-> 0]

\* parse_passcom_frame(raw_data) up to the head of its while True loop
ParsePasscomFrameStart(raw_data) ==
    /\ call.pc \in {"idle", "returned"}
    /\ call.n < MaxLoopCalls
    /\ passcom_parser' = [passcom_parser EXCEPT !.frames_processed = @ + 1,
                                                !.frame_buffer = @ \o raw_data]
    /\ call' = [op |-> "parse_passcom_frame", pc |-> "loop", n |-> call.n + 1,
                steps |-> 0, frames |-> <<>>]
    /\ UNCHANGED <<adsb_parser, gdl90_deframer, altitude_decoder, ref_parser>>

\* one iteration of that loop; leaving it returns extracted_frames
ParsePasscomFrameIterate ==
    LET Stepped(r) ==
            /\ passcom_parser' = r.parser
            /\ call' = [call EXCEPT !.pc = IF r.done THEN "returned" ELSE "loop",
                                    !.steps = @ + 1, !.frames = r.frames]
    IN  /\ call.op = "parse_passcom_frame"
        /\ call.pc = "loop"
        /\ \E x \in {ExtractNextFrame(passcom_parser.frame_buffer)} :
             \E r \in {ProcessFrameData(x.data)} :
                 Stepped(PasscomDrainStep(passcom_parser, call.frames, x, r))
        /\ UNCHANGED <<adsb_parser, gdl90_deframer, altitude_decoder, ref_parser>>

\* _extract_mode_s_frames(binary_data) up to the head of its while loop
ExtractModeSFramesStart(binary_data) ==
    /\ call.pc \in {"idle", "returned"}
    /\ call.n < MaxLoopCalls
    /\ call' = [op |-> "extract_mode_s_frames", pc |-> "loop", n |-> call.n + 1,
                steps |-> 0, binary_data |-> binary_data, offset |-> 0,
                frames |-> <<>>]
    /\ UNCHANGED <<adsb_parser, passcom_parser, gdl90_deframer, altitude_decoder,
                   ref_parser>>

\* one iteration of that loop; leaving it returns frames
ExtractModeSFramesIterate ==
    LET Stepped(r) ==
            /\ passcom_parser' =
                  [passcom_parser EXCEPT !.mode_s_frames_extracted =
                                             @ + Len(r.frames) - Len(call.frames)]
            /\ call' = [call EXCEPT !.pc = IF r.done THEN "returned" ELSE "loop",
                                    !.steps = @ + 1, !.offset = r.offset,
                                    !.frames = r.frames]
    IN  /\ call.op = "extract_mode_s_frames"
        /\ call.pc = "loop"
        /\ Stepped(ExtractModeSFramesStep(call.binary_data, call.offset, call.frames))
        /\ UNCHANGED <<adsb_parser, gdl90_deframer, altitude_decoder, ref_parser>>

\* _unstuff_bytes(frame_data) up to the head of its while loop; empty
\* frame_data returns None at once
UnstuffBytesStart(frame_data) ==
    /\ call.pc \in {"idle", "returned"}
    /\ call.n < MaxLoopCalls
    /\ call' = [op |-> "unstuff_bytes",
                pc |-> IF Len(frame_data) = 0 THEN "returned" ELSE "loop",
                n |-> call.n + 1, steps |-> 0, frame_data |-> frame_data,
                i |-> 0, unstuffed |-> <<>>]
    /\ UNCHANGED <<adsb_parser, passcom_parser, gdl90_deframer, altitude_decoder,
                   ref_parser>>

\* one step of that loop; leaving it returns bytes(unstuffed)
UnstuffBytesIterate ==
    LET Stepped(r) ==
            /\ gdl90_deframer' =
                  [gdl90_deframer EXCEPT !.byte_unstuff_operations = @ + r.ops]
            /\ call' = [call EXCEPT !.pc = IF r.done THEN "returned" ELSE "loop",
                                    !.steps = @ + 1, !.i = r.i,
                                    !.unstuffed = r.unstuffed]
    IN  /\ call.op = "unstuff_bytes"
        /\ call.pc = "loop"
        /\ Stepped(UnstuffBytesStep(call.frame_data, call.i, call.unstuffed, 0))
        /\ UNCHANGED <<adsb_parser, passcom_parser, altitude_decoder, ref_parser>>

\* deframe_message(raw_data) up to the head of its for loop; empty raw_data
\* returns [] at once
DeframeMessageStart(raw_data) ==
    /\ call.pc \in {"idle", "returned"}
    /\ call.n < MaxLoopCalls
    /\ call' = [op |-> "deframe_message",
                pc |-> IF Len(raw_data) = 0 THEN "returned" ELSE "loop",
                n |-> call.n + 1, steps |-> 0, raw_data |-> raw_data,
                boundaries |-> FindFrameBoundaries(raw_data), k |-> 1,
                messages |-> <<>>]
    /\ UNCHANGED <<adsb_parser, passcom_parser, gdl90_deframer, altitude_decoder,
                   ref_parser>>

\* one iteration of that loop; leaving it returns adsb_messages
DeframeMessageIterate ==
    LET Stepped(r) ==
            /\ gdl90_deframer' = r.deframer
            /\ call' = [call EXCEPT !.pc = IF r.done THEN "returned" ELSE "loop",
                                    !.steps = @ + 1, !.k = r.k,
                                    !.messages = r.messages]
    IN  /\ call.op = "deframe_message"
        /\ call.pc = "loop"
        /\ Stepped(DeframeFramesStep(gdl90_deframer, call.raw_data, call.boundaries,
                                     call.k, call.messages))
        /\ UNCHANGED <<adsb_parser, passcom_parser, altitude_decoder, ref_parser>>

\* the running call executes its next iteration
LoopIterate ==
    \/ ParsePasscomFrameIterate
    \/ ExtractModeSFramesIterate
    \/ UnstuffBytesIterate
    \/ DeframeMessageIterate

NextLoops ==
    \/ \E raw_data \in LoopFeeds : ParsePasscomFrameStart(raw_data)
    \/ \E binary_data \in LoopModeSData : ExtractModeSFramesStart(binary_data)
    \/ \E frame_data \in LoopFrameData : UnstuffBytesStart(frame_data)
    \/ \E raw_data \in LoopStreams : DeframeMessageStart(raw_data)
    \/ LoopIterate

\* A call that has started keeps running: the interpreter executes the next
\* iteration of the loop it is in.  Nothing obliges a caller to make a call.
SpecLoops == InitLoops /\ [][NextLoops]_vars /\ WF_vars(LoopIterate)

\* C29: every operation terminates: an iteration of the PASSCOM extraction
\* loop either leaves the loop or removes at least 4 bytes from the buffer,
\* an iteration of the Mode-S segmentation loop either leaves the loop or
\* advances the offset by 14 or 28, a step of the destuffing scan either
\* leaves the loop or advances the index by 1 or 2, and every call of
\* parse_passcom_frame, _extract_mode_s_frames, _unstuff_bytes and
\* deframe_message that has started returns.
C29_LoopsAdvanceAndReturn ==
    /\ [][(call.pc = "loop" /\ call'.pc = "loop") =>
            /\ call'.op = call.op
            /\ call.op = "parse_passcom_frame" =>
                 Len(passcom_parser.frame_buffer)
                   - Len(passcom_parser'.frame_buffer) >= 4
            /\ call.op = "extract_mode_s_frames" =>
                 call'.offset - call.offset \in {14, 28}
            /\ call.op = "unstuff_bytes" => call'.i - call.i \in {1, 2}
            /\ call.op = "deframe_message" => call'.k - call.k = 1]_vars
    /\ (call.pc = "loop") ~> (call.pc = "returned")

\* a second parse_passcom_frame call returned after two iterations that each
\* took a frame out of the buffer and a third that found it empty
C29_Witness ==
    /\ call.op = "parse_passcom_frame"
    /\ call.pc = "returned"
    /\ call.n = 2
    /\ call.steps = 3
    /\ Len(call.frames) = 2
    /\ passcom_parser.frame_buffer = <<>>

====
